---- MODULE Spec2Model ----
(***************************************************************************)
(* A model of the topological feature-extraction engine of the ml-api:     *)
(*   tda/simplicial.py   the booking simplicial complex and Betti numbers  *)
(*   tda/persistence.py  persistent homology and its size-adaptive paths   *)
(*                                                                         *)
(* Each part has its own specification over the variables of the module;   *)
(* the variables of the parts a specification does not use stay at their   *)
(* idle values.                                                            *)
(***************************************************************************)
EXTENDS Integers, Sequences, FiniteSets, TLC

VARIABLES
    \* ---- tda/simplicial.py: build_booking_simplicial_complex ----
    bookings,          \* the argument: a list of booking dicts
    pc,                \* position in the function
    bi,                \* index of the next booking of the loop of line 42
    entities,          \* the set `entities` (line 39)
    simplices_by_dim,  \* the defaultdict `simplices_by_dim` (line 40)
    parent,            \* union-find forest of _compute_betti_numbers
    edges_todo,        \* edges the loop of line 194 has not visited yet
    result,            \* the returned dict (or NoResult)
    \* ---- tda/persistence.py: compute_persistence_scaled ----
    n_points,          \* n = distance_matrix.shape[0]
    req_max_dim,       \* the argument max_dim
    scale_pc,          \* position in the function
    calls,             \* the calls made so far, with their arguments
    scale_result,      \* the dimensions that are keys of the result's "diagrams" and "stats"
    \* ---- tda/persistence.py: compute_persistence ----
    cp_args,           \* the arguments of the call
    cp_pc,             \* position in the function
    eng,               \* the state of the engine inside ripser()
    cp_result,         \* the returned dict (or NoResult)
    \* ---- tda/persistence.py: _multi_subsample_persistence ----
    ms_args,           \* the arguments of the call
    ms_pc,             \* position in the function
    ms_run,            \* which of two calls with the same arguments this is
    ms_iter,           \* iterations of the loop of line 200 completed
    all_stats,         \* the dict `all_stats` (line 198)
    sub_results,       \* the value of `result` (line 203) of every iteration
    ms_results,        \* the dicts returned by the calls made so far
    \* ---- tda/vectorize.py: persistence_statistics ----
    vz_diagrams,       \* the argument: a dict from keys to lists of [birth, death]
    vz_pc,             \* position in the function
    vz_dim,            \* index of the next key of the loop of line 34
    features,          \* the list `features` (line 32)
    vz_result,          \* the returned vector (or NoResult)
    \* ---- tda/timeseries.py: takens_embedding ----
    tk_args,           \* the arguments: time_series, delay, dimension
    tk_pc,             \* position in the function
    tk_col,            \* the next i of the loop of line 49
    embedded,          \* the array `embedded` (line 48), a list of rows
    tk_result,          \* the returned array, the raised error (or NoResult)
    \* ---- tda/timeseries.py: detect_periodicity_sw1pers ----
    pd_args,           \* the arguments: time_series, window_sizes
    pd_pc,             \* position in the function
    pd_i,              \* index of the next window of the loop of line 82
    pd_results,        \* the list `results` (line 81)
    pd_result,          \* the returned list (or NoResult)
    \* ---- routes/tda.py: /persistence and /persistence/diagram ----
    rq,                \* the request: the route and the PersistenceRequest body
    rt_pc,             \* position in the handler
    dist_matrix,       \* the local `dist_matrix` (or NoMatrix)
    rt_calls,          \* the calls compute_persistence_scaled has made
    rt_response,        \* the response (or NoResult)
    \* ---- tda/timeseries.py: detect_regime_changes ----
    rg_args,           \* the arguments: time_series, window_size, step
    rg_pc,             \* position in the function
    rg_start,          \* the next start of the loop of line 142
    norms,             \* the list `norms` (line 139)
    positions,         \* the list `positions` (line 140)
    rg_result,          \* the returned list (or NoResult)
    \* ---- tda/timeseries.py: detect_anomalies_tada ----
    ta_args,           \* the arguments: booking_channels (a list of arrays), window_size, step
    ta_pc,             \* position in the function
    ta_start,          \* the next start of the loop of line 238
    topo_features,     \* the list `topo_features` (line 235)
    ta_positions,      \* the list `positions` (line 236)
    ta_result,          \* the returned list (or NoResult)
    \* ---- tda/layout.py: analyze_floor_plan_topology ----
    ly_args,           \* the arguments: furniture_positions, room_boundary, dead_space_threshold_ft
    ly_pc,             \* position in the function
    points_arr,        \* the array `points_arr` (line 65), a list of [x, y]
    intervals,         \* the intervals gudhi returned: [h0 |-> ..., h1 |-> ...] (or NoResult)
    ly_result,          \* the returned dict (or NoResult)
    \* ---- tda/mapper.py: build_compatibility_mapper, build_mapper_with_html, _count_components ----
    mp_args,           \* the function called and its arguments
    mp_pc,             \* position in the functions
    graph,             \* the dict `graph` kmapper returned: nodes and links
    adj,               \* the dict `adj` (line 171)
    visited,           \* the set `visited` (line 177)
    components,        \* the counter `components` (line 178)
    queue,             \* the list `queue` (line 184)
    remaining,         \* the nodes the loop of line 180 has yet to take
    expanded,          \* the nodes line 189 has added to `visited`, in order
    files,             \* the files of the working directory, by path
    mp_result          \* the returned dict (or NoResult)

svars == <<bookings, pc, bi, entities, simplices_by_dim, parent, edges_todo, result>>

scvars == <<n_points, req_max_dim, scale_pc, calls, scale_result>>

cpvars == <<cp_args, cp_pc, eng, cp_result>>

msvars == <<ms_args, ms_pc, ms_run, ms_iter, all_stats, sub_results, ms_results>>

vzvars == <<vz_diagrams, vz_pc, vz_dim, features, vz_result>>

tkvars == <<tk_args, tk_pc, tk_col, embedded, tk_result>>

pdvars == <<pd_args, pd_pc, pd_i, pd_results, pd_result>>

rtvars == <<rq, rt_pc, dist_matrix, rt_calls, rt_response>>

rgvars == <<rg_args, rg_pc, rg_start, norms, positions, rg_result>>

tavars == <<ta_args, ta_pc, ta_start, topo_features, ta_positions, ta_result>>

lyvars == <<ly_args, ly_pc, points_arr, intervals, ly_result>>

mpvars == <<mp_args, mp_pc, graph, adj, visited, components, queue, remaining, expanded, files, mp_result>>

vars == <<svars, scvars, cpvars, msvars, vzvars, tkvars, pdvars, rtvars, rgvars, tavars, lyvars, mpvars>>

\* What the actions of one part leave alone: the variables of the others.
others_s == <<scvars, cpvars, msvars, vzvars, tkvars, pdvars, rtvars, rgvars, tavars, lyvars, mpvars>>
others_sc == <<svars, cpvars, msvars, vzvars, tkvars, pdvars, rtvars, rgvars, tavars, lyvars, mpvars>>
others_cp == <<svars, scvars, msvars, vzvars, tkvars, pdvars, rtvars, rgvars, tavars, lyvars, mpvars>>
others_ms == <<svars, scvars, cpvars, vzvars, tkvars, pdvars, rtvars, rgvars, tavars, lyvars, mpvars>>
others_vz == <<svars, scvars, cpvars, msvars, tkvars, pdvars, rtvars, rgvars, tavars, lyvars, mpvars>>
others_tk == <<svars, scvars, cpvars, msvars, vzvars, pdvars, rtvars, rgvars, tavars, lyvars, mpvars>>
others_pd == <<svars, scvars, cpvars, msvars, vzvars, tkvars, rtvars, rgvars, tavars, lyvars, mpvars>>
others_rt == <<svars, scvars, cpvars, msvars, vzvars, tkvars, pdvars, rgvars, tavars, lyvars, mpvars>>
others_rg == <<svars, scvars, cpvars, msvars, vzvars, tkvars, pdvars, rtvars, tavars, lyvars, mpvars>>
others_ta == <<svars, scvars, cpvars, msvars, vzvars, tkvars, pdvars, rtvars, rgvars, lyvars, mpvars>>
others_ly == <<svars, scvars, cpvars, msvars, vzvars, tkvars, pdvars, rtvars, rgvars, tavars, mpvars>>
others_mp == <<svars, scvars, cpvars, msvars, vzvars, tkvars, pdvars, rtvars, rgvars, tavars, lyvars>>

-----------------------------------------------------------------------------
(* Bounds of the explored inputs.                                          *)

\* Entities named by a booking list, counted with repetition (a booking names
\* its venue, event and timeslot and each entry of vendor_ids).
MaxMentions == 6

\* Longest vendor_ids list of a booking.
MaxVendors == 2

\* Point counts are explored up to NDelta on either side of a size boundary.
NDelta == 10

\* Largest requested homology dimension.
MaxDim == 2

\* Largest number of points of a distance matrix given to compute_persistence,
\* its largest max_dim, and the n_perm explored.
MaxPoints == 4
MaxHomDim == 1
LandmarkCount == 2

\* Largest number of points of a matrix given to _multi_subsample_persistence
\* (and largest subsample_size), and largest num_subsamples.
MsPoints == 3
MaxSubsamples == 2

\* Longest time series given to takens_embedding, its largest delay and its
\* largest embedding dimension.
MaxSeries == 4
MaxDelay == 3
MaxEmbDim == 3

\* Longest time series given to detect_periodicity_sw1pers (besides the
\* periodic-series scenario), its largest candidate period and its longest
\* candidate list.
MaxSignal == 6
MaxPeriod == 2
MaxCandidates == 2

\* Longest list of venues of a persistence request.
MaxVenues == 3

\* detect_regime_changes: the longest series, the largest window and step.
MaxRegime == 8
MaxWindow == 5
MaxStep == 2

\* detect_anomalies_tada: the longest short channel and the largest window.
MaxChannel == 4
MaxTadaWindow == 3

\* analyze_floor_plan_topology: the most furniture items, and the most finite
\* components and holes of the intervals of a cloud.
MaxFurniture == 2
MaxGroups == 2
MaxHoles == 2

\* Mapper: the most nodes of a graph.
MaxNodes == 3

\* Longest list of pairs of a diagram given to persistence_statistics.
MaxPairs == 2

\* The off-diagonal distances explored, in tenths: one below and one above
\* the threshold 0.8.
DistValues == {4, 9}

\* The same for _multi_subsample_persistence: two distances below the
\* threshold of 0.8 and one above it.
MsDistValues == {2, 4, 9}

VenueIds == {1, 2}
EventIds == {1, 2}
TimeslotIds == {1}
VendorIds == {1, 2}

\* Raw ids are positive numbers; the id 'default' that line 45 gives a booking
\* without a timeslot_id key is written 0.
Default == 0

NoResult == [status |-> "none"]

-----------------------------------------------------------------------------
(* Generic helpers.                                                        *)

SeqsUpTo(S, n) == UNION {[1..k -> S] : k \in 0..n}

Range(s) == {s[i] : i \in DOMAIN s}

Max2(a, b) == IF a >= b THEN a ELSE b

MaxOf(S) == CHOOSE x \in S : \A y \in S : y <= x

-----------------------------------------------------------------------------
(* tda/simplicial.py                                                       *)

\* dict.get(key, default)
Get(d, k, dflt) == IF k \in DOMAIN d THEN d[k] ELSE dflt

\* A booking dict: venue_id and event_id are required, timeslot_id and
\* vendor_ids are optional keys.
BookingSet ==
    LET VendorLists == SeqsUpTo(VendorIds, MaxVendors) IN
         [venue_id : VenueIds, event_id : EventIds]
    \cup [venue_id : VenueIds, event_id : EventIds, timeslot_id : TimeslotIds]
    \cup [venue_id : VenueIds, event_id : EventIds, vendor_ids : VendorLists]
    \cup [venue_id : VenueIds, event_id : EventIds, timeslot_id : TimeslotIds,
           vendor_ids : VendorLists]

\* f"venue:{id}", f"event:{id}", f"timeslot:{id}", f"vendor:{id}": the type
\* prefix and the id, kept apart.
Ent(type, id) == <<type, id>>

\* Position of a type prefix in the order of Python strings:
\* "event:" < "timeslot:" < "vendor:" < "venue:".
TypeRank(t) ==
    CASE t = "event" -> 1
      [] t = "timeslot" -> 2
      [] t = "vendor" -> 3
      [] t = "venue" -> 4

\* Order of the id parts as strings: digits before the word 'default'.
IdLT(a, b) == a # Default /\ (b = Default \/ a < b)

\* a < b for two entity strings.
EntLT(a, b) ==
    \/ TypeRank(a[1]) < TypeRank(b[1])
    \/ a[1] = b[1] /\ IdLT(a[2], b[2])

RECURSIVE Insert(_, _)
Insert(x, s) ==
    IF s = <<>> THEN <<x>>
    ELSE IF EntLT(Head(s), x) THEN <<Head(s)>> \o Insert(x, Tail(s))
    ELSE <<x>> \o s

\* sorted(s) for a tuple of entity strings.
RECURSIVE Sorted(_)
Sorted(s) == IF s = <<>> THEN <<>> ELSE Insert(Head(s), Sorted(Tail(s)))

\* list(itertools.combinations(s, r)): the r-element subsequences of s, by
\* position, in lexicographic order of the positions.
RECURSIVE Combinations(_, _)
Combinations(s, r) ==
    IF r = 0 THEN << <<>> >>
    ELSE IF Len(s) < r THEN <<>>
    ELSE LET withHead == Combinations(Tail(s), r - 1)
             without == Combinations(Tail(s), r)
         IN [i \in 1..Len(withHead) |-> <<Head(s)>> \o withHead[i]] \o without

\* all_entities of a booking (lines 43-50).
AllEntities(booking) ==
    LET venue == Ent("venue", booking.venue_id)
        event == Ent("event", booking.event_id)
        timeslot == Ent("timeslot", Get(booking, "timeslot_id", Default))
        vendor_ids == Get(booking, "vendor_ids", <<>>)
        vendors == [i \in 1..Len(vendor_ids) |-> Ent("vendor", vendor_ids[i])]
    IN <<venue, event, timeslot>> \o vendors

\* simplices_by_dim[dim].extend(items) on a defaultdict(list).
Extend(sbd, dim, items) ==
    [d \in DOMAIN sbd \cup {dim} |->
        IF d = dim THEN Get(sbd, dim, <<>>) \o items ELSE sbd[d]]

\* AddBookingTo with the triples of line 59 left out.
AddBookingToNoTriples(sbd, booking) ==
    LET all == AllEntities(booking)
        s1 == Extend(sbd, 1, Combinations(all, 2))
    IN IF Len(all) >= 4 THEN Extend(s1, 3, Combinations(all, 4)) ELSE s1

\* AddBookingTo with the test of line 63 written > 4.
AddBookingToLateQuads(sbd, booking) ==
    LET all == AllEntities(booking)
        s1 == Extend(sbd, 1, Combinations(all, 2))
        s2 == Extend(s1, 2, Combinations(all, 3))
    IN IF Len(all) > 4 THEN Extend(s2, 3, Combinations(all, 4)) ELSE s2

\* One iteration of the loop over bookings (lines 42-65).
AddBookingTo(sbd, booking) ==
    LET all == AllEntities(booking)
        s1 == Extend(sbd, 1, Combinations(all, 2))
        s2 == Extend(s1, 2, Combinations(all, 3))
    IN IF Len(all) >= 4 THEN Extend(s2, 3, Combinations(all, 4)) ELSE s2

\* Deduplicated without the sorted() of line 70.
DeduplicatedUnsorted(sbd, ents) ==
    [d \in DOMAIN sbd \cup {0} |->
        IF d = 0 THEN {<<e>> : e \in ents}
        ELSE {sbd[d][i] : i \in DOMAIN sbd[d]}]

\* Lines 67-74: every list becomes the set of its sorted tuples (a list in
\* the arbitrary order of a Python set, written as the set itself), and
\* dimension 0 becomes the 1-tuples of the entities.
Deduplicated(sbd, ents) ==
    [d \in DOMAIN sbd \cup {0} |->
        IF d = 0 THEN {<<e>> : e \in ents}
        ELSE {Sorted(sbd[d][i]) : i \in DOMAIN sbd[d]}]

\* find(x) that stops at the parent instead of walking to the root.
FindOneStep(p, x) == <<p[x], p>>

\* find(x) with path halving (lines 183-187): <<root, parent afterwards>>.
RECURSIVE Find(_, _)
Find(p, x) ==
    IF p[x] = x THEN <<x, p>>
    ELSE LET p2 == [p EXCEPT ![x] = p[p[x]]] IN Find(p2, p2[x])

\* union(a, b) that finds the two roots and does not link them.
UnionNoLink(p, a, b) == Find(Find(p, a)[2], b)[2]

\* union(a, b) (lines 189-192): the parent map afterwards.
Union(p, a, b) ==
    LET fa == Find(p, a)
        fb == Find(fa[2], b)
    IN IF fa[1] # fb[1] THEN [fb[2] EXCEPT ![fa[1]] = fb[1]] ELSE fb[2]

\* len(simplices_by_dim.get(k, []))
CountDim(sbd, k) == Cardinality(Get(sbd, k, {}))

\* BettiNumbers with an estimate that does not subtract the number of
\* (k-1)-simplices.
BettiNumbersNoFaces(sbd, p) ==
    LET max_dim == IF DOMAIN sbd = {} THEN 0 ELSE MaxOf(DOMAIN sbd) IN
    [k \in 0..max_dim |->
        IF Get(sbd, k, {}) = {} THEN 0
        ELSE IF k = 0
             THEN LET vertices == {s[1] : s \in sbd[0]}
                  IN Cardinality({Find(p, v)[1] : v \in vertices})
             ELSE Max2(0, CountDim(sbd, k) - CountDim(sbd, k + 1))]

\* BettiNumbers without the max(0, .) of line 209.
BettiNumbersUnclamped(sbd, p) ==
    LET max_dim == IF DOMAIN sbd = {} THEN 0 ELSE MaxOf(DOMAIN sbd) IN
    [k \in 0..max_dim |->
        IF Get(sbd, k, {}) = {} THEN 0
        ELSE IF k = 0
             THEN Cardinality({Find(p, s[1])[1] : s \in sbd[0]})
             ELSE Cardinality(sbd[k]) - Cardinality(Get(sbd, k - 1, {}))
                    - Cardinality(Get(sbd, k + 1, {}))]

\* The loop over k of _compute_betti_numbers (lines 165-211), given the
\* parent map the union loop has produced for k = 0.
BettiNumbers(sbd, p) ==
    LET max_dim == IF DOMAIN sbd = {} THEN 0 ELSE MaxOf(DOMAIN sbd) IN
    [k \in 0..max_dim |->
        IF Get(sbd, k, {}) = {} THEN 0
        ELSE IF k = 0
             THEN LET vertices == {s[1] : s \in sbd[0]}
                  IN Cardinality({Find(p, v)[1] : v \in vertices})
             ELSE Max2(0, CountDim(sbd, k) - CountDim(sbd, k - 1) - CountDim(sbd, k + 1))]

RECURSIVE SumSeq(_)
SumSeq(s) == IF s = <<>> THEN 0 ELSE Head(s) + SumSeq(Tail(s))

\* np.sort of a list of counts.
RECURSIVE InsertNum(_, _)
InsertNum(x, s) ==
    IF s = <<>> THEN <<x>>
    ELSE IF Head(s) < x THEN <<Head(s)>> \o InsertNum(x, Tail(s))
    ELSE <<x>> \o s

RECURSIVE SortNum(_)
SortNum(s) == IF s = <<>> THEN <<>> ELSE InsertNum(Head(s), SortNum(Tail(s)))

\* HodgeAnalysis with the flag taken from the tetrahedra instead of the
\* triangles.
HodgeAnalysisTetrahedra(sbd, bks) ==
    LET venues == {bks[i].venue_id : i \in DOMAIN bks}
        venue_counts == [v \in venues |->
                            Cardinality({i \in DOMAIN bks : bks[i].venue_id = v})]
    IN IF venues = {}
       THEN [gradient_strength |-> <<0, 1>>, curl_detected |-> FALSE, patterns |-> <<>>]
       ELSE LET RECURSIVE CountsOf(_)
                CountsOf(V) == IF V = {} THEN <<>>
                               ELSE LET v == CHOOSE x \in V : TRUE
                                    IN <<venue_counts[v]>> \o CountsOf(V \ {v})
                sorted_counts == SortNum(CountsOf(venues))
                n == Len(sorted_counts)
                total == SumSeq(sorted_counts)
                weighted == SumSeq([i \in 1..n |-> i * sorted_counts[i]])
                gini == <<2 * weighted - (n + 1) * total, n * total>>
            IN [gradient_strength |-> IF gini[1] > 0 THEN gini ELSE <<0, 1>>,
                curl_detected |-> CountDim(sbd, 3) > 0,
                num_triangles |-> CountDim(sbd, 2),
                num_tetrahedra |-> CountDim(sbd, 3)]

\* _hodge_analysis_simplified (lines 214-253). The Gini coefficient
\* 2*sum(i*c_i)/(n*sum(c)) - (n+1)/n is kept as the exact fraction
\* <<numerator, denominator>> over the denominator n*sum(c).
HodgeAnalysis(sbd, bks) ==
    LET venues == {bks[i].venue_id : i \in DOMAIN bks}
        venue_counts == [v \in venues |->
                            Cardinality({i \in DOMAIN bks : bks[i].venue_id = v})]
    IN IF venues = {}
       THEN [gradient_strength |-> <<0, 1>>, curl_detected |-> FALSE, patterns |-> <<>>]
       ELSE LET RECURSIVE CountsOf(_)
                CountsOf(V) == IF V = {} THEN <<>>
                               ELSE LET v == CHOOSE x \in V : TRUE
                                    IN <<venue_counts[v]>> \o CountsOf(V \ {v})
                sorted_counts == SortNum(CountsOf(venues))
                n == Len(sorted_counts)
                total == SumSeq(sorted_counts)
                weighted == SumSeq([i \in 1..n |-> i * sorted_counts[i]])
                gini == <<2 * weighted - (n + 1) * total, n * total>>
            IN [gradient_strength |-> IF gini[1] > 0 THEN gini ELSE <<0, 1>>,
                curl_detected |-> CountDim(sbd, 2) > 0,
                num_triangles |-> CountDim(sbd, 2),
                num_tetrahedra |-> CountDim(sbd, 3)]

\* The dict returned by build_booking_simplicial_complex (lines 82-94).
ComplexResult(sbd, ents, p, bks) ==
    [status |-> "returned",
     simplices |-> sbd,
     counts |-> [d \in DOMAIN sbd |-> Cardinality(sbd[d])],
     num_entities |-> Cardinality(ents),
     betti_numbers |-> BettiNumbers(sbd, p),
     hodge_analysis |-> HodgeAnalysis(sbd, bks)]

\* Number of entities a booking list names, with repetition.
RECURSIVE Mentions(_)
Mentions(bks) ==
    IF bks = <<>> THEN 0 ELSE Len(AllEntities(Head(bks))) + Mentions(Tail(bks))

\* The booking lists explored. Ids are labels, so the first booking's venue
\* and event are the ones named 1.
\* One booking that lists a vendor three times and another one twice: five
\* entities, and after deduplication more tetrahedra (22) than triangles (19).
CateredBooking ==
    <<[venue_id |-> 1, event_id |-> 1, timeslot_id |-> 1, vendor_ids |-> <<1, 1, 1, 2, 2>>]>>

BookingLists ==
    {b \in SeqsUpTo(BookingSet, MaxMentions \div 3) :
        /\ Mentions(b) <= MaxMentions
        /\ b # <<>> => (b[1].venue_id = 1 /\ b[1].event_id = 1)}
        \cup {CateredBooking}

SInit ==
    /\ bookings \in BookingLists
    /\ pc = "collect"
    /\ bi = 1
    /\ entities = {}
    /\ simplices_by_dim = <<>>
    /\ parent = <<>>
    /\ edges_todo = {}
    /\ result = NoResult

\* Lines 42-65: one booking of the loop.
AddBooking ==
    /\ pc = "collect"
    /\ bi <= Len(bookings)
    /\ entities' = entities \cup Range(AllEntities(bookings[bi]))
    /\ simplices_by_dim' = AddBookingTo(simplices_by_dim, bookings[bi])
    /\ bi' = bi + 1
    /\ UNCHANGED <<bookings, pc, parent, edges_todo, result>>
    /\ UNCHANGED others_s

\* Lines 67-74 and the start of _compute_betti_numbers for k = 0 (lines
\* 179-181): deduplicate, then set every vertex to be its own parent.
Deduplicate ==
    /\ pc = "collect"
    /\ bi > Len(bookings)
    /\ simplices_by_dim' = Deduplicated(simplices_by_dim, entities)
    /\ parent' = [v \in entities |-> v]
    /\ edges_todo' = IF entities = {} THEN {} ELSE Get(simplices_by_dim', 1, {})
    /\ pc' = "union"
    /\ UNCHANGED <<bookings, bi, entities, result>>
    /\ UNCHANGED others_s

\* Lines 194-196: the next edge of the list, which is in the arbitrary
\* order of a Python set.
UnionEdge ==
    /\ pc = "union"
    /\ \E edge \in edges_todo :
         /\ parent' = IF Len(edge) = 2 THEN Union(parent, edge[1], edge[2]) ELSE parent
         /\ edges_todo' = edges_todo \ {edge}
    /\ UNCHANGED <<bookings, pc, bi, entities, simplices_by_dim, result>>
    /\ UNCHANGED others_s

\* Lines 198-211 and 80-94: the Betti numbers, the Hodge analysis and the
\* returned dict.
ReturnComplex ==
    /\ pc = "union"
    /\ edges_todo = {}
    /\ result' = ComplexResult(simplices_by_dim, entities, parent, bookings)
    /\ pc' = "done"
    /\ UNCHANGED <<bookings, bi, entities, simplices_by_dim, parent, edges_todo>>
    /\ UNCHANGED others_s

SNext == AddBooking \/ Deduplicate \/ UnionEdge \/ ReturnComplex

\* The state of the parts of the module while another part runs.
SIdle ==
    /\ bookings = <<>>
    /\ pc = "idle"
    /\ bi = 1
    /\ entities = {}
    /\ simplices_by_dim = <<>>
    /\ parent = <<>>
    /\ edges_todo = {}
    /\ result = NoResult

-----------------------------------------------------------------------------
(* tda/persistence.py: compute_persistence_scaled                          *)

\* Distances and thresholds are written in tenths: 0.8 is 8.
EXACT_MAX_N == 3000
LANDMARK_MAX_N == 10000
SPARSE_MAX_N == 50000
EXACT_THRESHOLD == 8
LANDMARK_THRESHOLD == 5
LANDMARK_SIZE == 2000
SPARSE_SLACK == 3
SUBSAMPLE_SIZE == 2000
NUM_SUBSAMPLES == 20

Min2(a, b) == IF a <= b THEN a ELSE b

\* ScalePath with the boundaries given to the upper band (< for <=).
ScalePathStrict(n) ==
    IF n < EXACT_MAX_N THEN "exact"
    ELSE IF n < LANDMARK_MAX_N THEN "landmark"
    ELSE IF n < SPARSE_MAX_N THEN "sparse"
    ELSE "multi"

\* The branch of the if/elif chain of lines 111-134 taken for n points.
ScalePath(n) ==
    IF n <= EXACT_MAX_N THEN "exact"
    ELSE IF n <= LANDMARK_MAX_N THEN "landmark"
    ELSE IF n <= SPARSE_MAX_N THEN "sparse"
    ELSE "multi"

\* A call compute_persistence(distance_matrix, max_dim=, threshold=) and one
\* that also passes n_perm=.
CallPersistence(max_dim, threshold) ==
    [fn |-> "compute_persistence", max_dim |-> max_dim, threshold |-> threshold]

CallPersistencePerm(max_dim, threshold, n_perm) ==
    [fn |-> "compute_persistence", max_dim |-> max_dim, threshold |-> threshold,
     n_perm |-> n_perm]

\* _gudhi_sparse_persistence(distance_matrix, max_dim), which builds
\* RipsComplex(sparse=0.3) (line 143).
CallSparse(max_dim) ==
    [fn |-> "_gudhi_sparse_persistence", max_dim |-> max_dim, sparse |-> SPARSE_SLACK]

\* _multi_subsample_persistence(distance_matrix, max_dim, subsample_size=,
\* num_subsamples=).
CallMulti(max_dim, subsample_size, num_subsamples) ==
    [fn |-> "_multi_subsample_persistence", max_dim |-> max_dim,
     subsample_size |-> subsample_size, num_subsamples |-> num_subsamples]

\* The point counts explored: around 0 and around every boundary.
PointCounts ==
    0..NDelta \cup UNION {(t - NDelta)..(t + NDelta) :
                            t \in {EXACT_MAX_N, LANDMARK_MAX_N, SPARSE_MAX_N}}

\* Lines 54-56 and 81, 148-154, 210-216: a result has one entry per
\* dimension of range(max_dim + 1) in "diagrams" and in "stats".
DimKeys(max_dim) == [diagrams |-> 0..max_dim, stats |-> 0..max_dim]

\* No result yet.
NoKeys == [diagrams |-> {}, stats |-> {}]

ScInit ==
    /\ n_points \in PointCounts
    /\ req_max_dim \in 0..MaxDim
    /\ scale_pc = "start"
    /\ calls = <<>>
    /\ scale_result = NoKeys

ScIdle ==
    /\ n_points = 0
    /\ req_max_dim = 0
    /\ scale_pc = "idle"
    /\ calls = <<>>
    /\ scale_result = NoKeys

\* Lines 111-112.
ScaleExact ==
    /\ scale_pc = "start"
    /\ ScalePath(n_points) = "exact"
    /\ calls' = Append(calls, CallPersistence(req_max_dim, EXACT_THRESHOLD))
    /\ scale_result' = DimKeys(req_max_dim)
    /\ scale_pc' = "done"
    /\ UNCHANGED <<n_points, req_max_dim>>
    /\ UNCHANGED others_sc

\* Lines 114-118: the first call of the second branch.
ScaleLandmarkH01 ==
    /\ scale_pc = "start"
    /\ ScalePath(n_points) = "landmark"
    /\ calls' = Append(calls, CallPersistence(1, EXACT_THRESHOLD))
    /\ scale_result' = DimKeys(1)
    /\ scale_pc' = "landmark_h2"
    /\ UNCHANGED <<n_points, req_max_dim>>
    /\ UNCHANGED others_sc

\* Lines 119-124: the second call, whose H2 is merged into the first result.
ScaleLandmarkH2 ==
    /\ scale_pc = "landmark_h2"
    /\ calls' = Append(calls, CallPersistencePerm(2, LANDMARK_THRESHOLD,
                                                   Min2(n_points, LANDMARK_SIZE)))
    /\ scale_result' = [diagrams |-> scale_result.diagrams \cup {2},
                        stats |-> scale_result.stats \cup {2}]
    /\ scale_pc' = "done"
    /\ UNCHANGED <<n_points, req_max_dim>>
    /\ UNCHANGED others_sc

\* Lines 126-128.
ScaleSparse ==
    /\ scale_pc = "start"
    /\ ScalePath(n_points) = "sparse"
    /\ calls' = Append(calls, CallSparse(req_max_dim))
    /\ scale_result' = DimKeys(req_max_dim)
    /\ scale_pc' = "done"
    /\ UNCHANGED <<n_points, req_max_dim>>
    /\ UNCHANGED others_sc

\* Lines 130-134.
ScaleMulti ==
    /\ scale_pc = "start"
    /\ ScalePath(n_points) = "multi"
    /\ calls' = Append(calls, CallMulti(req_max_dim, SUBSAMPLE_SIZE, NUM_SUBSAMPLES))
    /\ scale_result' = DimKeys(req_max_dim)
    /\ scale_pc' = "done"
    /\ UNCHANGED <<n_points, req_max_dim>>
    /\ UNCHANGED others_sc

ScNext == ScaleExact \/ ScaleLandmarkH01 \/ ScaleLandmarkH2 \/ ScaleSparse \/ ScaleMulti

-----------------------------------------------------------------------------
(* The persistence engine that compute_persistence calls as ripser(): a    *)
(* Vietoris-Rips filtration of a distance matrix and its persistence       *)
(* pairs. Points are 1..n, distances are whole tenths, a simplex is the    *)
(* set of its points.                                                      *)

\* The death value of a feature that never dies (np.inf).
Infinity == 1000000

\* The symmetric zero-diagonal matrix with the off-diagonal entries f.
MatrixOf(n, f) ==
    [i \in 1..n |-> [j \in 1..n |->
        IF i = j THEN 0 ELSE IF i < j THEN f[<<i, j>>] ELSE f[<<j, i>>]]]

NumPoints(dm) == Len(dm)

\* Birth of a simplex: the largest pairwise distance among its vertices.
Birth(dm, s) == MaxOf({dm[i][j] : i, j \in s})

Dim(s) == Cardinality(s) - 1

\* The simplices of the filtration: dimension at most max_dim + 1, birth at
\* most the threshold when kw has one.
RipsSimplices(dm, max_dim, kw) ==
    {s \in SUBSET (1..NumPoints(dm)) :
        /\ s # {}
        /\ Dim(s) <= max_dim + 1
        /\ "thresh" \in DOMAIN kw => Birth(dm, s) <= kw.thresh}

MinOf(S) == CHOOSE x \in S : \A y \in S : x <= y

\* The filtration order: by birth, then by dimension, then lexicographically
\* by vertices.
SimplexLT(dm, a, b) ==
    \/ Birth(dm, a) < Birth(dm, b)
    \/ /\ Birth(dm, a) = Birth(dm, b)
       /\ \/ Dim(a) < Dim(b)
          \/ /\ Dim(a) = Dim(b)
             /\ a # b
             /\ MinOf((a \ b) \cup (b \ a)) \in a

RECURSIVE FiltrationOrder(_, _)
FiltrationOrder(dm, S) ==
    IF S = {} THEN <<>>
    ELSE LET first == CHOOSE s \in S : \A t \in S \ {s} : SimplexLT(dm, s, t)
         IN <<first>> \o FiltrationOrder(dm, S \ {first})

\* Position of a simplex in the filtration order.
IndexOf(order, s) == CHOOSE i \in 1..Len(order) : order[i] = s

\* The engine before the first simplex: no component, no column, no pair.
EngineStart(dm, max_dim, kw) ==
    [dm |-> dm,
     max_dim |-> max_dim,
     order |-> FiltrationOrder(dm, RipsSimplices(dm, max_dim, kw)),
     pos |-> 1,
     uf |-> <<>>,
     cols |-> <<>>,
     owner |-> <<>>,
     cycles |-> {},
     pairs |-> [d \in 0..max_dim |-> <<>>]]

\* The codimension-1 faces of a simplex.
Faces(s) == {s \ {v} : v \in s}

\* The lowest row of a column: its latest simplex in filtration order.
Low(order, col) ==
    CHOOSE r \in col : \A q \in col : IndexOf(order, q) <= IndexOf(order, r)

\* Reduce a column against the reduced columns that own its lowest row.
RECURSIVE ReduceColumn(_, _, _, _)
ReduceColumn(order, cols, owner, col) ==
    IF col = {} THEN col
    ELSE LET r == Low(order, col)
         IN IF r \in DOMAIN owner
            THEN LET other == cols[owner[r]]
                 IN ReduceColumn(order, cols, owner, (col \ other) \cup (other \ col))
            ELSE col

\* Add the pair <<birth, death>> to the diagram of dimension d.
Emit(pairs, d, birth, death) ==
    IF d \in DOMAIN pairs
    THEN [pairs EXCEPT ![d] = Append(@, <<birth, death>>)]
    ELSE pairs

\* f with the value v at x, x added to the domain when new.
Put(f, x, v) == [y \in DOMAIN f \cup {x} |-> IF y = x THEN v ELSE f[y]]

\* One simplex of the filtration.
EngineStep(st) ==
    LET s == st.order[st.pos]
        b == Birth(st.dm, s)
        next == [st EXCEPT !.pos = st.pos + 1]
    IN IF Dim(s) = 0
       THEN \* a vertex: a new component
            LET v == CHOOSE x \in s : TRUE
            IN [next EXCEPT !.uf = Put(st.uf, v, v)]
       ELSE IF Dim(s) = 1
       THEN \* an edge: merge two components, or close a cycle
            LET u == MinOf(s)
                v == MaxOf(s)
                fu == Find(st.uf, u)
                fv == Find(fu[2], v)
            IN IF fu[1] # fv[1]
               THEN [next EXCEPT !.uf = [fv[2] EXCEPT ![fu[1]] = fv[1]],
                                 !.pairs = Emit(st.pairs, 0, 0, b)]
               ELSE [next EXCEPT !.uf = fv[2],
                                 !.cycles = st.cycles \cup {s}]
       ELSE \* a higher simplex: reduce its boundary column
            LET col == ReduceColumn(st.order, st.cols, st.owner, Faces(s))
            IN IF col = {}
               THEN [next EXCEPT !.cycles = st.cycles \cup {s}]
               ELSE LET r == Low(st.order, col)
                    IN [next EXCEPT !.cols = Put(st.cols, s, col),
                                    !.owner = Put(st.owner, r, s),
                                    !.cycles = st.cycles \ {r},
                                    !.pairs = Emit(st.pairs, Dim(r), Birth(st.dm, r), b)]

EngineDone(st) == st.pos > Len(st.order)

RECURSIVE EngineRun(_)
EngineRun(st) == IF EngineDone(st) THEN st ELSE EngineRun(EngineStep(st))

\* The cycles of dimension d no later simplex has killed, in filtration order.
RECURSIVE OpenCycles(_, _, _)
OpenCycles(st, d, i) ==
    IF i > Len(st.order) THEN <<>>
    ELSE LET s == st.order[i]
         IN (IF Dim(s) = d /\ s \in st.cycles
             THEN << <<Birth(st.dm, s), Infinity>> >> ELSE <<>>)
            \o OpenCycles(st, d, i + 1)

\* The surviving components, one infinite feature each.
OpenComponents(st) ==
    LET roots == {Find(st.uf, v)[1] : v \in DOMAIN st.uf}
    IN [i \in 1..Cardinality(roots) |-> <<0, Infinity>>]

\* result["dgms"] once every simplex is processed: per dimension the finite
\* pairs in the order they were emitted, then the infinite features.
EngineDiagrams(st) ==
    [d \in 0..st.max_dim |->
        st.pairs[d] \o (IF d = 0 THEN OpenComponents(st) ELSE OpenCycles(st, d, 1))]

\* The points at positions idx of a matrix: distance_matrix[np.ix_(idx, idx)].
Submatrix(dm, idx) ==
    [i \in 1..Len(idx) |-> [j \in 1..Len(idx) |-> dm[idx[i]][idx[j]]]]

\* The greedy permutation of n_perm landmarks: the first point, then again
\* and again the point farthest from the landmarks chosen so far.
RECURSIVE GreedyLandmarks(_, _, _)
GreedyLandmarks(dm, k, chosen) ==
    LET rest == (1..NumPoints(dm)) \ Range(chosen)
        Gap(p) == MinOf({dm[p][q] : q \in Range(chosen)})
    IN IF Len(chosen) >= k \/ rest = {} THEN chosen
       ELSE LET far == MinOf({p \in rest : \A q \in rest : Gap(q) <= Gap(p)})
            IN GreedyLandmarks(dm, k, Append(chosen, far))

\* The matrix the filtration is built on: the landmarks when n_perm is given.
RipserInput(dm, kw) ==
    IF "n_perm" \in DOMAIN kw /\ NumPoints(dm) > 0
    THEN Submatrix(dm, GreedyLandmarks(dm, kw.n_perm, <<1>>))
    ELSE dm

\* ripser(distance_matrix, maxdim=, distance_matrix=True, thresh=, n_perm=):
\* the diagrams result["dgms"], one per dimension 0..maxdim.
Ripser(dm, max_dim, kw) ==
    EngineDiagrams(EngineRun(EngineStart(RipserInput(dm, kw), max_dim, kw)))

-----------------------------------------------------------------------------
(* tda/persistence.py: compute_persistence                                 *)

RECURSIVE GCD(_, _)
GCD(a, b) == IF b = 0 THEN a ELSE GCD(b, a % b)

Abs(x) == IF x < 0 THEN -x ELSE x

\* The rational n/d (d > 0) in lowest terms, as <<numerator, denominator>>.
Frac(n, d) ==
    LET g == GCD(Abs(n), d) IN IF g = 0 THEN <<0, 1>> ELSE <<n \div g, d \div g>>

FracAdd(x, y) == Frac(x[1] * y[2] + y[1] * x[2], x[2] * y[2])

FracSub(x, y) == Frac(x[1] * y[2] - y[1] * x[2], x[2] * y[2])

\* np.percentile(x, 25 * quarters) of the sorted list x, with numpy's linear
\* interpolation between the two nearest ranks.
Percentile(x, quarters) ==
    LET h == (Len(x) - 1) * quarters
        i == (h \div 4) + 1
        r == h % 4
    IN IF r = 0 THEN Frac(x[i], 1)
       ELSE Frac(4 * x[i] + r * (x[i + 1] - x[i]), 4)

\* The statistics of lines 66-81 for the list of finite lifespans. The mean,
\* the median and the IQR are exact rationals; the standard deviation is kept
\* as the variance it is the square root of and the entropy as the sorted
\* lifespans it is computed from.
LifespanStats(lifespans) ==
    IF Len(lifespans) > 0
    THEN LET n == Len(lifespans)
             x == SortNum(lifespans)
             total == SumSeq(lifespans)
             squares == SumSeq([i \in 1..n |-> lifespans[i] * lifespans[i]])
         IN [count |-> n,
             mean_lifespan |-> Frac(total, n),
             std_lifespan |-> [sqrt_of |-> Frac(n * squares - total * total, n * n)],
             median_lifespan |-> IF n % 2 = 1 THEN Frac(x[(n + 1) \div 2], 1)
                                 ELSE Frac(x[n \div 2] + x[(n \div 2) + 1], 2),
             max_lifespan |-> x[n],
             iqr_lifespan |-> FracSub(Percentile(x, 3), Percentile(x, 1)),
             entropy |-> [entropy_of |-> x]]
    ELSE [count |-> 0]

\* The subsequence of the entries of s that satisfy Keep.
RECURSIVE SelectPairs(_)
SelectPairs(s) ==
    IF s = <<>> THEN <<>>
    ELSE (IF Head(s)[2] # Infinity THEN <<Head(s)>> ELSE <<>>) \o SelectPairs(Tail(s))

\* Lines 58-60: the finite pairs of a diagram and their lifespans.
FinitePairs(dgm) == IF Len(dgm) > 0 THEN SelectPairs(dgm) ELSE <<>>

Lifespans(dgm) ==
    LET finite == FinitePairs(dgm) IN [i \in 1..Len(finite) |-> finite[i][2] - finite[i][1]]

\* Kwargs that never forwards the threshold to ripser.
KwargsNoThreshold(args) ==
    IF "n_perm" \in DOMAIN args THEN [n_perm |-> args.n_perm] ELSE <<>>

\* Kwargs with the threshold 0.8 passed to ripser when the caller gave none.
KwargsDefaultThreshold(args) ==
    LET t == IF "threshold" \in DOMAIN args THEN [thresh |-> args.threshold]
             ELSE [thresh |-> EXACT_THRESHOLD]
    IN IF "n_perm" \in DOMAIN args
       THEN [k \in DOMAIN t \cup {"n_perm"} |-> IF k = "n_perm" THEN args.n_perm ELSE t[k]]
       ELSE t

\* The keyword arguments of lines 40-47 for a call that passes the optional
\* arguments args (threshold and n_perm, each present or not).
Kwargs(args) ==
    LET none == <<>>
        t == IF "threshold" \in DOMAIN args THEN [thresh |-> args.threshold] ELSE none
    IN IF "n_perm" \in DOMAIN args
       THEN [k \in DOMAIN t \cup {"n_perm"} |-> IF k = "n_perm" THEN args.n_perm ELSE t[k]]
       ELSE t

\* PersistenceResult with the finite pairs stored as the diagram (line 62
\* written diagrams[key] = finite.tolist()).
PersistenceResultFiniteOnly(dgms, max_dim, n) ==
    [diagrams |-> [d \in 0..max_dim |-> FinitePairs(dgms[d])],
     stats |-> [d \in 0..max_dim |-> LifespanStats(Lifespans(dgms[d]))],
     num_points |-> n]

\* Lines 51-87: the returned dict for the diagrams ripser gave; the keys
\* "H0", "H1", ... are written 0, 1, ...
PersistenceResult(dgms, max_dim, n) ==
    [diagrams |-> [d \in 0..max_dim |-> dgms[d]],
     stats |-> [d \in 0..max_dim |-> LifespanStats(Lifespans(dgms[d]))],
     num_points |-> n]

\* compute_persistence(distance_matrix, max_dim, **args).
ComputePersistence(dm, max_dim, args) ==
    PersistenceResult(Ripser(dm, max_dim, Kwargs(args)), max_dim, NumPoints(dm))

\* The distance matrices on n points with off-diagonal entries in values.
MatricesOver(n, values) ==
    {MatrixOf(n, f) : f \in [{<<i, j>> \in (1..n) \X (1..n) : i < j} -> values]}

Matrices(n) == MatricesOver(n, DistValues)

\* Three points at pairwise distance 1.0, max_dim 1.
TriangleLoop ==
    [distance_matrix |-> MatrixOf(3, [p \in {<<1, 2>>, <<1, 3>>, <<2, 3>>} |-> 10]),
     max_dim |-> 1]

\* The calls explored: any matrix, max_dim, with or without a threshold and
\* with or without n_perm.
PersistenceCalls ==
    LET Required == UNION {[distance_matrix : Matrices(n), max_dim : 0..MaxHomDim]
                            : n \in 1..MaxPoints} \cup {TriangleLoop}
        With(r, k, v) == [x \in DOMAIN r \cup {k} |-> IF x = k THEN v ELSE r[x]]
        Thresh(R) == R \cup {With(r, "threshold", EXACT_THRESHOLD) : r \in R}
        Perm(R) == R \cup {With(r, "n_perm", Min2(NumPoints(r.distance_matrix),
                                                  LandmarkCount)) : r \in R}
    IN Perm(Thresh(Required))

\* The optional arguments of a call.
Optional(args) == [k \in DOMAIN args \ {"distance_matrix", "max_dim"} |-> args[k]]

NoEngine == [pos |-> 0]

CpInit ==
    /\ cp_args \in PersistenceCalls
    /\ cp_pc = "start"
    /\ eng = NoEngine
    /\ cp_result = NoResult

CpIdle ==
    /\ cp_args = <<>>
    /\ cp_pc = "idle"
    /\ eng = NoEngine
    /\ cp_result = NoResult

\* Lines 40-49: the keyword arguments, and ripser() starts on the filtration.
CallRipser ==
    /\ cp_pc = "start"
    /\ eng' = LET kw == Kwargs(Optional(cp_args))
              IN EngineStart(RipserInput(cp_args.distance_matrix, kw), cp_args.max_dim, kw)
    /\ cp_pc' = "ripser"
    /\ UNCHANGED <<cp_args, cp_result>>
    /\ UNCHANGED others_cp

\* Inside ripser(): the next simplex of the filtration.
RipserStep ==
    /\ cp_pc = "ripser"
    /\ ~EngineDone(eng)
    /\ eng' = EngineStep(eng)
    /\ UNCHANGED <<cp_args, cp_pc, cp_result>>
    /\ UNCHANGED others_cp

\* Lines 51-87: ripser() has returned; the diagrams and statistics.
ReturnPersistence ==
    /\ cp_pc = "ripser"
    /\ EngineDone(eng)
    /\ cp_result' = [status |-> "returned",
                     value |-> PersistenceResult(EngineDiagrams(eng), cp_args.max_dim,
                                                 NumPoints(cp_args.distance_matrix))]
    /\ cp_pc' = "done"
    /\ UNCHANGED <<cp_args, eng>>
    /\ UNCHANGED others_cp

CpNext == CallRipser \/ RipserStep \/ ReturnPersistence

-----------------------------------------------------------------------------
(* tda/persistence.py: _multi_subsample_persistence                        *)

\* np.random.choice(n, size=m, replace=False): the possible draws, m distinct
\* points in any order.
Draws(n, m) == {idx \in [1..m -> 1..n] : \A i, j \in 1..m : i # j => idx[i] # idx[j]}

\* [s[field] for s in sub_stats]
Column(sub_stats, field) == [i \in 1..Len(sub_stats) |-> sub_stats[i][field]]

RECURSIVE FracSum(_)
FracSum(s) == IF s = <<>> THEN <<0, 1>> ELSE FracAdd(Head(s), FracSum(Tail(s)))

\* np.mean of a list of rationals.
FracMean(s) == LET t == FracSum(s) IN Frac(t[1], t[2] * Len(s))

\* np.mean of a list of values that are kept unevaluated: the values with
\* their multiplicities.
MeanOf(s) == [mean_of |-> [v \in Range(s) |-> Cardinality({i \in DOMAIN s : s[i] = v})]]

\* A merge that keeps the longest-lived feature of the subsample merged last
\* instead of the longest-lived feature of all of them.
AggregateStatsLastWins(sub_stats, num_subsamples, subsample_size) ==
    IF Len(sub_stats) > 0
    THEN [count |-> SumSeq(Column(sub_stats, "count")) \div Len(sub_stats),
          mean_lifespan |-> FracMean(Column(sub_stats, "mean_lifespan")),
          std_lifespan |-> MeanOf(Column(sub_stats, "std_lifespan")),
          median_lifespan |-> FracMean(Column(sub_stats, "median_lifespan")),
          max_lifespan |-> sub_stats[Len(sub_stats)].max_lifespan,
          iqr_lifespan |-> FracMean(Column(sub_stats, "iqr_lifespan")),
          entropy |-> MeanOf(Column(sub_stats, "entropy")),
          num_subsamples |-> num_subsamples,
          subsample_size |-> subsample_size]
    ELSE [count |-> 0]

\* Lines 214-236: the statistics of one dimension from the retained
\* subsample statistics.
AggregateStats(sub_stats, num_subsamples, subsample_size) ==
    IF Len(sub_stats) > 0
    THEN [count |-> SumSeq(Column(sub_stats, "count")) \div Len(sub_stats),
          mean_lifespan |-> FracMean(Column(sub_stats, "mean_lifespan")),
          std_lifespan |-> MeanOf(Column(sub_stats, "std_lifespan")),
          median_lifespan |-> FracMean(Column(sub_stats, "median_lifespan")),
          max_lifespan |-> MaxOf(Range(Column(sub_stats, "max_lifespan"))),
          iqr_lifespan |-> FracMean(Column(sub_stats, "iqr_lifespan")),
          entropy |-> MeanOf(Column(sub_stats, "entropy")),
          num_subsamples |-> num_subsamples,
          subsample_size |-> subsample_size]
    ELSE [count |-> 0]

\* Lines 210-243: the returned dict.
MultiResult(stats_by_dim, args) ==
    [diagrams |-> [d \in 0..args.max_dim |-> <<>>],
     stats |-> [d \in 0..args.max_dim |->
                  AggregateStats(stats_by_dim[d], args.num_subsamples, args.subsample_size)],
     num_points |-> NumPoints(args.distance_matrix),
     method |-> "multi_subsample"]

\* The calls explored.
MultiCalls ==
    UNION {[distance_matrix : MatricesOver(n, MsDistValues), max_dim : 0..MaxHomDim,
            subsample_size : 1..MsPoints, num_subsamples : 1..MaxSubsamples]
           : n \in 2..MsPoints}

MsInit ==
    /\ ms_args \in MultiCalls
    /\ ms_pc = "loop"
    /\ ms_run = 1
    /\ ms_iter = 0
    /\ all_stats = [d \in 0..ms_args.max_dim |-> <<>>]
    /\ sub_results = <<>>
    /\ ms_results = <<>>

MsIdle ==
    /\ ms_args = <<>>
    /\ ms_pc = "idle"
    /\ ms_run = 0
    /\ ms_iter = 0
    /\ all_stats = <<>>
    /\ sub_results = <<>>
    /\ ms_results = <<>>

\* Lines 200-208: one subsample, drawn at random.
Subsample ==
    /\ ms_pc = "loop"
    /\ ms_iter < ms_args.num_subsamples
    /\ LET n == NumPoints(ms_args.distance_matrix) IN
       \E indices \in Draws(n, Min2(ms_args.subsample_size, n)) :
         LET sub_matrix == Submatrix(ms_args.distance_matrix, indices)
             res == ComputePersistence(sub_matrix, ms_args.max_dim,
                                       [threshold |-> EXACT_THRESHOLD])
         IN /\ all_stats' = [d \in 0..ms_args.max_dim |->
                               IF res.stats[d].count > 0
                               THEN Append(all_stats[d], res.stats[d])
                               ELSE all_stats[d]]
            /\ sub_results' = Append(sub_results, res)
    /\ ms_iter' = ms_iter + 1
    /\ UNCHANGED <<ms_args, ms_pc, ms_run, ms_results>>
    /\ UNCHANGED others_ms

\* Lines 210-243: aggregate and return.
Aggregate ==
    /\ ms_pc = "loop"
    /\ ms_iter = ms_args.num_subsamples
    /\ ms_results' = Append(ms_results, MultiResult(all_stats, ms_args))
    /\ ms_pc' = "returned"
    /\ UNCHANGED <<ms_args, ms_run, ms_iter, all_stats, sub_results>>
    /\ UNCHANGED others_ms

\* The caller makes the same call a second time (lines 197-198 again).
CallAgain ==
    /\ ms_pc = "returned"
    /\ ms_run = 1
    /\ ms_run' = 2
    /\ ms_pc' = "loop"
    /\ ms_iter' = 0
    /\ all_stats' = [d \in 0..ms_args.max_dim |-> <<>>]
    /\ sub_results' = <<>>
    /\ UNCHANGED <<ms_args, ms_results>>
    /\ UNCHANGED others_ms

MsNext == Subsample \/ Aggregate \/ CallAgain

-----------------------------------------------------------------------------
(* tda/vectorize.py: persistence_statistics                                *)

FEATURES_PER_DIM == 12
NUM_DIMS == 3
TOTAL_FEATURES == FEATURES_PER_DIM * NUM_DIMS

\* The keys of the loop of line 34.
VecDims == <<"H0", "H1", "H2">>

\* [0.0] * FEATURES_PER_DIM
ZeroBlock == [i \in 1..FEATURES_PER_DIM |-> <<0, 1>>]

\* np.percentile(x, 100 * num / den) of the sorted list x, with numpy's
\* linear interpolation between the two nearest ranks.
PercentileAt(x, num, den) ==
    LET h == (Len(x) - 1) * num
        i == (h \div den) + 1
        r == h % den
    IN IF r = 0 THEN Frac(x[i], 1)
       ELSE Frac(den * x[i] + r * (x[i + 1] - x[i]), den)

\* Lines 41-42: the lifespans of a diagram that are finite.
RECURSIVE FiniteLifespans(_)
FiniteLifespans(dgm) ==
    IF dgm = <<>> THEN <<>>
    ELSE (IF Head(dgm)[1] # Infinity /\ Head(dgm)[2] # Infinity
          THEN <<Head(dgm)[2] - Head(dgm)[1]>> ELSE <<>>)
         \o FiniteLifespans(Tail(dgm))

\* Lines 48-64: the twelve features of a non-empty list of finite lifespans.
\* The standard deviation is kept as the variance it is the square root of
\* and the entropy as the sorted lifespans it is computed from.
VecFeatures(lifespans) ==
    LET n == Len(lifespans)
        x == SortNum(lifespans)
        total == SumSeq(lifespans)
        squares == SumSeq([i \in 1..n |-> lifespans[i] * lifespans[i]])
    IN << Frac(n, 1),
          Frac(total, n),
          [sqrt_of |-> Frac(n * squares - total * total, n * n)],
          IF n % 2 = 1 THEN Frac(x[(n + 1) \div 2], 1)
          ELSE Frac(x[n \div 2] + x[(n \div 2) + 1], 2),
          FracSub(PercentileAt(x, 3, 4), PercentileAt(x, 1, 4)),
          Frac(x[n], 1),
          Frac(x[n] - x[1], 1),
          [entropy_of |-> x],
          PercentileAt(x, 1, 10),
          PercentileAt(x, 1, 4),
          PercentileAt(x, 3, 4),
          PercentileAt(x, 9, 10) >>

\* VecBlock that appends nothing for a diagram without finite lifespans.
VecBlockSkipsNonFinite(diagrams, dim) ==
    LET dgm == Get(diagrams, dim, <<>>) IN
    IF Len(dgm) = 0 THEN ZeroBlock
    ELSE IF Len(FiniteLifespans(dgm)) = 0 THEN <<>>
    ELSE VecFeatures(FiniteLifespans(dgm))

\* Lines 35-64: what one iteration of the loop appends to `features`.
VecBlock(diagrams, dim) ==
    LET dgm == Get(diagrams, dim, <<>>) IN
    IF Len(dgm) = 0 THEN ZeroBlock
    ELSE IF Len(FiniteLifespans(dgm)) = 0 THEN ZeroBlock
    ELSE VecFeatures(FiniteLifespans(dgm))

\* The [birth, death] pairs explored, in tenths.
VecPairs == {<<0, 4>>, <<2, 9>>, <<0, Infinity>>}

\* The diagram sets explored: each of H0, H1, H2 missing or a list of pairs,
\* with or without a key the function does not read.
DiagramSets ==
    LET Lists == SeqsUpTo(VecPairs, MaxPairs)
        Keys == SUBSET {"H0", "H1", "H2"}
        Known == UNION {[K -> Lists] : K \in Keys}
    IN Known \cup {[k \in DOMAIN d \cup {"H3"} |-> IF k = "H3" THEN << <<0, 4>> >> ELSE d[k]]
                   : d \in Known}

VzInit ==
    /\ vz_diagrams \in DiagramSets
    /\ vz_pc = "loop"
    /\ vz_dim = 1
    /\ features = <<>>
    /\ vz_result = NoResult

VzIdle ==
    /\ vz_diagrams = <<>>
    /\ vz_pc = "idle"
    /\ vz_dim = 0
    /\ features = <<>>
    /\ vz_result = NoResult

\* Lines 35-39: the key is missing or its diagram is empty.
VecEmptyDiagram ==
    /\ vz_pc = "loop"
    /\ vz_dim <= Len(VecDims)
    /\ Len(Get(vz_diagrams, VecDims[vz_dim], <<>>)) = 0
    /\ features' = features \o VecBlock(vz_diagrams, VecDims[vz_dim])
    /\ vz_dim' = vz_dim + 1
    /\ UNCHANGED <<vz_diagrams, vz_pc, vz_result>>
    /\ UNCHANGED others_vz

\* Lines 41-46: the diagram has pairs, none with a finite lifespan.
VecNoFiniteLifespan ==
    /\ vz_pc = "loop"
    /\ vz_dim <= Len(VecDims)
    /\ LET dgm == Get(vz_diagrams, VecDims[vz_dim], <<>>)
       IN Len(dgm) # 0 /\ Len(FiniteLifespans(dgm)) = 0
    /\ features' = features \o VecBlock(vz_diagrams, VecDims[vz_dim])
    /\ vz_dim' = vz_dim + 1
    /\ UNCHANGED <<vz_diagrams, vz_pc, vz_result>>
    /\ UNCHANGED others_vz

\* Lines 48-64: the twelve statistics of the finite lifespans.
VecStatistics ==
    /\ vz_pc = "loop"
    /\ vz_dim <= Len(VecDims)
    /\ Len(FiniteLifespans(Get(vz_diagrams, VecDims[vz_dim], <<>>))) # 0
    /\ features' = features \o VecBlock(vz_diagrams, VecDims[vz_dim])
    /\ vz_dim' = vz_dim + 1
    /\ UNCHANGED <<vz_diagrams, vz_pc, vz_result>>
    /\ UNCHANGED others_vz

\* Line 66.
VecReturn ==
    /\ vz_pc = "loop"
    /\ vz_dim > Len(VecDims)
    /\ vz_result' = [status |-> "returned", value |-> features]
    /\ vz_pc' = "done"
    /\ UNCHANGED <<vz_diagrams, vz_dim, features>>
    /\ UNCHANGED others_vz

VzNext == VecEmptyDiagram \/ VecNoFiniteLifespan \/ VecStatistics \/ VecReturn

-----------------------------------------------------------------------------
(* tda/timeseries.py: takens_embedding                                     *)

\* The Python slice s[a:b] of a list, for 0 <= a: the entries at the
\* (0-based) positions a .. b-1 that exist.
Slice(s, a, b) ==
    LET hi == IF b < Len(s) THEN b ELSE Len(s)
    IN IF hi <= a THEN <<>> ELSE [k \in 1..(hi - a) |-> s[a + k]]

\* Line 42.
TakensNumPoints(series, delay, dimension) == Len(series) - (dimension - 1) * delay

\* TakensTooShort that lets a count of zero through.
TakensTooShortStrict(num_points) == num_points < 0

\* Line 43: the test that raises.
TakensTooShort(num_points) == num_points <= 0

\* np.zeros((num_points, dimension))
ZeroArray(num_points, dimension) == [t \in 1..num_points |-> [i \in 1..dimension |-> 0]]

\* Line 50 for one i: embedded[:, i] = time_series[i*delay : i*delay + num_points]
FillColumn(array, series, delay, i, num_points) ==
    LET column == Slice(series, i * delay, i * delay + num_points)
    IN [t \in 1..Len(array) |-> [array[t] EXCEPT ![i + 1] = column[t]]]

RECURSIVE FillColumns(_, _, _, _, _, _)
FillColumns(array, series, delay, i, dimension, num_points) ==
    IF i >= dimension THEN array
    ELSE FillColumns(FillColumn(array, series, delay, i, num_points),
                     series, delay, i + 1, dimension, num_points)

TooShortError == [status |-> "raised", error |-> "ValueError: Time series too short"]

\* takens_embedding(time_series, delay, dimension), for callers.
TakensEmbedding(series, delay, dimension) ==
    LET num_points == TakensNumPoints(series, delay, dimension)
    IN IF TakensTooShort(num_points) THEN TooShortError
       ELSE [status |-> "returned",
             value |-> FillColumns(ZeroArray(num_points, dimension), series, delay,
                                   0, dimension, num_points)]

\* The calls explored.
TakensCalls ==
    [time_series : SeqsUpTo({0, 1}, MaxSeries), delay : 0..MaxDelay, dimension : 0..MaxEmbDim]

TkInit ==
    /\ tk_args \in TakensCalls
    /\ tk_pc = "start"
    /\ tk_col = 0
    /\ embedded = <<>>
    /\ tk_result = NoResult

TkIdle ==
    /\ tk_args = <<>>
    /\ tk_pc = "idle"
    /\ tk_col = 0
    /\ embedded = <<>>
    /\ tk_result = NoResult

\* Lines 41-46: the series is too short.
TakensRaise ==
    /\ tk_pc = "start"
    /\ TakensTooShort(TakensNumPoints(tk_args.time_series, tk_args.delay, tk_args.dimension))
    /\ tk_result' = TooShortError
    /\ tk_pc' = "done"
    /\ UNCHANGED <<tk_args, tk_col, embedded>>
    /\ UNCHANGED others_tk

\* Lines 41-48: the array of zeros.
TakensAllocate ==
    /\ tk_pc = "start"
    /\ ~TakensTooShort(TakensNumPoints(tk_args.time_series, tk_args.delay, tk_args.dimension))
    /\ embedded' = ZeroArray(TakensNumPoints(tk_args.time_series, tk_args.delay,
                                             tk_args.dimension), tk_args.dimension)
    /\ tk_pc' = "fill"
    /\ UNCHANGED <<tk_args, tk_col, tk_result>>
    /\ UNCHANGED others_tk

\* Lines 49-50: one column.
TakensFillColumn ==
    /\ tk_pc = "fill"
    /\ tk_col < tk_args.dimension
    /\ embedded' = FillColumn(embedded, tk_args.time_series, tk_args.delay, tk_col,
                              TakensNumPoints(tk_args.time_series, tk_args.delay,
                                              tk_args.dimension))
    /\ tk_col' = tk_col + 1
    /\ UNCHANGED <<tk_args, tk_pc, tk_result>>
    /\ UNCHANGED others_tk

\* Line 51.
TakensReturn ==
    /\ tk_pc = "fill"
    /\ tk_col >= tk_args.dimension
    /\ tk_result' = [status |-> "returned", value |-> embedded]
    /\ tk_pc' = "done"
    /\ UNCHANGED <<tk_args, tk_col, embedded>>
    /\ UNCHANGED others_tk

TkNext == TakensRaise \/ TakensAllocate \/ TakensFillColumn \/ TakensReturn

-----------------------------------------------------------------------------
(* tda/timeseries.py: detect_periodicity_sw1pers                           *)
(*                                                                         *)
(* Series values and coordinates are fixed-point numbers in thousandths.   *)
(* ripser(cloud) is the engine above on the Euclidean distances of the     *)
(* cloud, rounded down to thousandths; coincident points of the cloud are  *)
(* one vertex of the filtration (they add only pairs of lifespan 0).       *)

MinSeq(s) == MinOf(Range(s))

MaxSeq(s) == MaxOf(Range(s))

\* Lines 78-79: (time_series - ts_min) / (ts_max - ts_min + 1e-10); a constant
\* series becomes all zeros.
Normalize(series) ==
    LET lo == MinSeq(series)
        hi == MaxSeq(series)
    IN [t \in 1..Len(series) |->
          IF hi = lo THEN 0 ELSE ((series[t] - lo) * 1000) \div (hi - lo)]

\* The integer square root, by bisection on lo..hi.
RECURSIVE IsqrtIn(_, _, _)
IsqrtIn(x, lo, hi) ==
    IF lo >= hi THEN lo
    ELSE LET mid == (lo + hi + 1) \div 2
         IN IF mid * mid <= x THEN IsqrtIn(x, mid, hi) ELSE IsqrtIn(x, lo, mid - 1)

Isqrt(x) == IsqrtIn(x, 0, IF x < 46340 THEN x ELSE 46340)

\* The Euclidean distance of two points.
Euclidean(a, b) ==
    Isqrt(SumSeq([i \in 1..Len(a) |-> (a[i] - b[i]) * (a[i] - b[i])]))

\* The distinct points of a cloud, in the order of their first occurrence.
DistinctPoints(cloud) ==
    LET firsts == {i \in 1..Len(cloud) : \A j \in 1..(i - 1) : cloud[j] # cloud[i]}
        Nth(k) == CHOOSE i \in firsts : Cardinality({j \in firsts : j <= i}) = k
    IN [k \in 1..Cardinality(firsts) |-> cloud[Nth(k)]]

\* The distance matrix of a cloud.
CloudMatrix(points) ==
    [i \in 1..Len(points) |-> [j \in 1..Len(points) |-> Euclidean(points[i], points[j])]]

\* ripser(cloud, maxdim=max_dim)["dgms"]
RipserCloud(cloud, max_dim) ==
    Ripser(CloudMatrix(DistinctPoints(cloud)), max_dim, <<>>)

\* _period_label (lines 301-313)
PeriodLabel(days) ==
    IF days <= 7 THEN "weekly"
    ELSE IF days <= 14 THEN "biweekly"
    ELSE IF days <= 31 THEN "monthly"
    ELSE IF days <= 93 THEN "quarterly"
    ELSE IF days <= 366 THEN "annual"
    ELSE "n-day"

\* PeriodTooLong that also skips a period of exactly a third of the series.
PeriodTooLongInclusive(n, window) == n <= 3 * window

\* Line 83: the test that skips a candidate.
PeriodTooLong(n, window) == n < 3 * window

\* Line 90: the H1 diagram of the embedding with delay = window.
PeriodDiagram(ts, window) ==
    RipserCloud(TakensEmbedding(ts, window, 2).value, 1)[1]

\* Lines 91-112: the entry of a candidate.
PeriodEntry(ts, window) ==
    LET dgm == PeriodDiagram(ts, window)
        lifespans == [k \in 1..Len(dgm) |-> dgm[k][2] - dgm[k][1]]
        total == SumSeq(lifespans)
    IN IF Len(dgm) = 0
       THEN [period_days |-> window, persistence |-> 0, confidence |-> <<0, 1>>,
             label |-> PeriodLabel(window)]
       ELSE LET max_persistence == MaxSeq(lifespans)
                \* max / mean / 5, at most 1
                fifth == IF total = 0 THEN <<0, 1>>
                         ELSE Frac(max_persistence * Len(lifespans), 5 * total)
            IN [period_days |-> window,
                persistence |-> max_persistence,
                confidence |-> IF fifth[1] > fifth[2] THEN <<1, 1>> ELSE fifth,
                label |-> PeriodLabel(window)]

\* sorted(results, key=persistence, reverse=True): a stable sort, entries of
\* equal persistence keep their order.
RECURSIVE SortByPersistence(_)
SortByPersistence(entries) ==
    IF entries = <<>> THEN <<>>
    ELSE LET rest == SortByPersistence(Tail(entries))
             e == Head(entries)
             before == SelectSeq(rest, LAMBDA r : r.persistence > e.persistence)
             after == SelectSeq(rest, LAMBDA r : r.persistence <= e.persistence)
         IN before \o <<e>> \o after

\* One week of sin(2*pi*t/7), in thousandths.
SineWeek == <<0, 782, 975, 434, -434, -975, -782>>

\* The periodic-series scenario: 90 daily values of sin(2*pi*t/7), candidate
\* periods 7, 14 and 30.
PeriodicScenario ==
    [time_series |-> [t \in 1..90 |-> SineWeek[((t - 1) % 7) + 1]],
     window_sizes |-> <<7, 14, 30>>]

\* The calls explored: the scenario and short series of two values with
\* lists of distinct candidate periods.
PeriodicityCalls ==
    LET Series == SeqsUpTo({0, 1000}, MaxSignal) \ {<<>>}
        Lists == {w \in SeqsUpTo(1..MaxPeriod, MaxCandidates) :
                     \A i, j \in DOMAIN w : i # j => w[i] # w[j]}
    IN [time_series : Series, window_sizes : Lists] \cup {PeriodicScenario}

PdInit ==
    /\ pd_args \in PeriodicityCalls
    /\ pd_pc = "loop"
    /\ pd_i = 1
    /\ pd_results = <<>>
    /\ pd_result = NoResult

PdIdle ==
    /\ pd_args = <<>>
    /\ pd_pc = "idle"
    /\ pd_i = 0
    /\ pd_results = <<>>
    /\ pd_result = NoResult

\* Lines 83-84: the candidate needs more than the series has.
PeriodSkip ==
    /\ pd_pc = "loop"
    /\ pd_i <= Len(pd_args.window_sizes)
    /\ PeriodTooLong(Len(pd_args.time_series), pd_args.window_sizes[pd_i])
    /\ pd_i' = pd_i + 1
    /\ UNCHANGED <<pd_args, pd_pc, pd_results, pd_result>>
    /\ UNCHANGED others_pd

\* Lines 86-112: the candidate is embedded and scored by its largest H1
\* lifespan (0 when its H1 diagram is empty).
PeriodScore ==
    /\ pd_pc = "loop"
    /\ pd_i <= Len(pd_args.window_sizes)
    /\ ~PeriodTooLong(Len(pd_args.time_series), pd_args.window_sizes[pd_i])
    /\ pd_results' = Append(pd_results, PeriodEntry(Normalize(pd_args.time_series),
                                                    pd_args.window_sizes[pd_i]))
    /\ pd_i' = pd_i + 1
    /\ UNCHANGED <<pd_args, pd_pc, pd_result>>
    /\ UNCHANGED others_pd

\* Line 114.
PeriodReturn ==
    /\ pd_pc = "loop"
    /\ pd_i > Len(pd_args.window_sizes)
    /\ pd_result' = [status |-> "returned", value |-> SortByPersistence(pd_results)]
    /\ pd_pc' = "done"
    /\ UNCHANGED <<pd_args, pd_i, pd_results>>
    /\ UNCHANGED others_pd

PdNext == PeriodSkip \/ PeriodScore \/ PeriodReturn

-----------------------------------------------------------------------------
(* tda/distance.py: build_venue_distance_matrix, and the two handlers of   *)
(* routes/tda.py that call it.                                             *)
(*                                                                         *)
(* gower_matrix() is an external package: the distance is the weighted     *)
(* average of spec.md 4.1 over the columns of feature_df, in tenths.       *)

NUM_AMENITIES == 10

NoMatrix == [status |-> "none"]

\* Lines 47-50: the amenity columns of a venue; a list shorter than the
\* amenity names is padded with False.
AmenityColumns(venue) ==
    [i \in 1..NUM_AMENITIES |->
        IF i <= Len(venue.amenities) THEN venue.amenities[i] ELSE FALSE]

\* Range-normalised absolute difference of a continuous column, in thousandths.
RangeDistance(venues, field, a, b) ==
    LET values == {venues[k][field] : k \in 1..Len(venues)}
        range == MaxOf(values) - MinOf(values)
    IN IF range = 0 THEN 0 ELSE (Abs(a[field] - b[field]) * 1000) \div range

\* 0 when equal, 1 otherwise, in thousandths.
Mismatch(x, y) == IF x = y THEN 0 ELSE 1000

\* The Gower distance of two venues, in tenths: capacity and price weigh 1.5
\* (lines 70-72), the other fourteen columns 1.
GowerDistance(venues, a, b) ==
    LET weighted ==
            15 * RangeDistance(venues, "capacity", a, b)
          + 15 * RangeDistance(venues, "price_per_event", a, b)
          + 10 * RangeDistance(venues, "sq_footage", a, b)
          + 10 * Mismatch(a.venue_type, b.venue_type)
          + 10 * RangeDistance(venues, "lat", a, b)
          + 10 * RangeDistance(venues, "lng", a, b)
          + 10 * SumSeq([i \in 1..NUM_AMENITIES |->
                           Mismatch(AmenityColumns(a)[i], AmenityColumns(b)[i])])
    IN weighted \div (170 * 100)

\* build_venue_distance_matrix(venues): a KeyError for an empty list (the
\* frame has no column 'amenities', line 48), a matrix otherwise.
BuildVenueDistanceMatrix(venues) ==
    IF Len(venues) = 0
    THEN [status |-> "raised", error |-> "KeyError: 'amenities'"]
    ELSE [status |-> "returned",
          value |-> [i \in 1..Len(venues) |-> [j \in 1..Len(venues) |->
                        GowerDistance(venues, venues[i], venues[j])]]]

\* The VenueData records explored: two capacities and amenity lists of three
\* lengths.
VenueRecords ==
    [capacity : {100, 300}, price_per_event : {500}, sq_footage : {2000},
     venue_type : {"hall"}, lat : {51}, lng : {0},
     amenities : {<<>>, <<TRUE>>, <<FALSE, TRUE>>}]

\* The requests explored; a request without the key threshold has
\* threshold = None.
PersistenceRequests ==
    LET Bodies == [venues : SeqsUpTo(VenueRecords, MaxVenues), max_dim : {1, 2}]
        WithThreshold == {[k \in DOMAIN b \cup {"threshold"} |->
                             IF k = "threshold" THEN t ELSE b[k]]
                          : b \in Bodies, t \in {LANDMARK_THRESHOLD, EXACT_THRESHOLD}}
    IN [route : {"/persistence", "/persistence/diagram"},
        body : Bodies \cup WithThreshold]

RtInit ==
    /\ rq \in PersistenceRequests
    /\ rt_pc = "start"
    /\ dist_matrix = NoMatrix
    /\ rt_calls = <<>>
    /\ rt_response = NoResult

RtIdle ==
    /\ rq = <<>>
    /\ rt_pc = "idle"
    /\ dist_matrix = NoMatrix
    /\ rt_calls = <<>>
    /\ rt_response = NoResult

\* routes/tda.py lines 104-105: /persistence wants three venues.
RouteTooFewVenues ==
    /\ rt_pc = "start"
    /\ rq.route = "/persistence"
    /\ Len(rq.body.venues) < 3
    /\ rt_response' = [status |-> "error", code |-> 400,
                       detail |-> "Need at least 3 venues for TDA"]
    /\ rt_pc' = "done"
    /\ UNCHANGED <<rq, dist_matrix, rt_calls>>
    /\ UNCHANGED others_rt

\* Lines 107-108 and 124-125: the distance matrix is built.
RouteBuildMatrix ==
    /\ rt_pc = "start"
    /\ rq.route = "/persistence" => Len(rq.body.venues) >= 3
    /\ BuildVenueDistanceMatrix(rq.body.venues).status = "returned"
    /\ dist_matrix' = BuildVenueDistanceMatrix(rq.body.venues)
    /\ rt_pc' = "compute"
    /\ UNCHANGED <<rq, rt_calls, rt_response>>
    /\ UNCHANGED others_rt

\* Lines 124-125: building the matrix raises; the handler does not catch it.
RouteBuildRaises ==
    /\ rt_pc = "start"
    /\ rq.route = "/persistence" => Len(rq.body.venues) >= 3
    /\ BuildVenueDistanceMatrix(rq.body.venues).status = "raised"
    /\ rt_response' = [status |-> "error", code |-> 500,
                       detail |-> BuildVenueDistanceMatrix(rq.body.venues).error]
    /\ rt_pc' = "done"
    /\ UNCHANGED <<rq, dist_matrix, rt_calls>>
    /\ UNCHANGED others_rt

\* Lines 109-111: compute_persistence_scaled(dist_matrix, max_dim=...) on its
\* first branch, and the result is the response.
RoutePersistence ==
    /\ rt_pc = "compute"
    /\ rq.route = "/persistence"
    /\ ScalePath(NumPoints(dist_matrix.value)) = "exact"
    /\ rt_calls' = Append(rt_calls, CallPersistence(rq.body.max_dim, EXACT_THRESHOLD))
    /\ rt_response' = [status |-> "ok",
                       value |-> ComputePersistence(dist_matrix.value, rq.body.max_dim,
                                                    [threshold |-> EXACT_THRESHOLD])]
    /\ rt_pc' = "done"
    /\ UNCHANGED <<rq, dist_matrix>>
    /\ UNCHANGED others_rt

\* Lines 126-129: the same for /persistence/diagram, which answers with the
\* picture of the diagrams and the statistics.
RouteDiagram ==
    /\ rt_pc = "compute"
    /\ rq.route = "/persistence/diagram"
    /\ ScalePath(NumPoints(dist_matrix.value)) = "exact"
    /\ rt_calls' = Append(rt_calls, CallPersistence(rq.body.max_dim, EXACT_THRESHOLD))
    /\ LET res == ComputePersistence(dist_matrix.value, rq.body.max_dim,
                                     [threshold |-> EXACT_THRESHOLD])
       IN rt_response' = [status |-> "ok",
                          value |-> [image_base64 |-> [png_of |-> res.diagrams],
                                     stats |-> res.stats]]
    /\ rt_pc' = "done"
    /\ UNCHANGED <<rq, dist_matrix>>
    /\ UNCHANGED others_rt

RtNext ==
    \/ RouteTooFewVenues
    \/ RouteBuildMatrix
    \/ RouteBuildRaises
    \/ RoutePersistence
    \/ RouteDiagram

-----------------------------------------------------------------------------
(* tda/timeseries.py: detect_regime_changes                                *)
(*                                                                         *)
(* Window values are normalised to thousandths as above; a norm is the sum *)
(* of the squared H1 lifespans of the window, in ten-thousandths.          *)

\* Line 154.
RegimeDelay(window_size) == IF window_size \div 7 > 1 THEN window_size \div 7 ELSE 1

\* Lines 146-170: the norm of one window.  A constant window, an embedding
\* that raises and an empty H1 diagram all give 0.
RegimeNorm(window, window_size) ==
    IF MaxSeq(window) - MinSeq(window) = 0 THEN 0
    ELSE LET cloud == TakensEmbedding(Normalize(window), RegimeDelay(window_size), 2)
         IN IF cloud.status = "raised" THEN 0
            ELSE LET dgm == RipserCloud(cloud.value, 1)[1]
                     lifespans == Lifespans(dgm)
                 IN IF Len(dgm) = 0 THEN 0
                    ELSE SumSeq([k \in 1..Len(lifespans) |->
                                    lifespans[k] * lifespans[k]]) \div 100

\* Line 180: np.abs(np.diff(norms_arr))
AbsDiff(values) == [i \in 1..(Len(values) - 1) |-> Abs(values[i + 1] - values[i])]

\* The test with one standard deviation instead of two.
ExceedsOneSigma(d, diff) ==
    LET k == Len(diff)
        S == SumSeq(diff)
        Q == SumSeq([i \in 1..k |-> diff[i] * diff[i]])
    IN /\ k * d - S > 0
       /\ (k * d - S) * (k * d - S) > k * Q - S * S

\* Line 181, as a test: d > mean(diff) + 2 * std(diff).  With k differences of
\* sum S and sum of squares Q the standard deviation is sqrt(k*Q - S*S) / k.
ExceedsTwoSigma(d, diff) ==
    LET k == Len(diff)
        S == SumSeq(diff)
        Q == SumSeq([i \in 1..k |-> diff[i] * diff[i]])
    IN /\ k * d - S > 0
       /\ (k * d - S) * (k * d - S) > 4 * (k * Q - S * S)

\* Line 183: threshold < 1e-10, which for differences that are multiples of
\* the unit means that every difference is 0.
ThresholdVanishes(diff) == SumSeq(diff) = 0

\* diff[i] / threshold, the square root rounded down.
Severity(d, diff) ==
    LET k == Len(diff)
        S == SumSeq(diff)
        Q == SumSeq([i \in 1..k |-> diff[i] * diff[i]])
    IN Frac(k * d, S + 2 * Isqrt(k * Q - S * S))

\* Lines 186-196: one entry per index of a difference above the threshold.
ChangePoints(norms_arr, pos) ==
    LET diff == AbsDiff(norms_arr)
        change_indices == SelectSeq([i \in 1..Len(diff) |-> i],
                                    LAMBDA i : ExceedsTwoSigma(diff[i], diff))
    IN [j \in 1..Len(change_indices) |->
          LET i == change_indices[j]
          IN [position |-> pos[i],
              severity |-> Severity(diff[i], diff),
              norm_before |-> norms_arr[i],
              norm_after |-> norms_arr[i + 1]]]

\* A flat series that ends in one oscillation: the first six windows of five
\* values have no loop, the seventh one has.
RegimeShift ==
    [time_series |-> <<0, 0, 0, 0, 0, 0, 0, 0, 1, 1, 0, 0>>, window_size |-> 5, step |-> 1]

\* The same oscillation after a shorter flat stretch: four windows, of which
\* only the last one has a loop, so the one large difference is one of three.
RegimeBlip ==
    [time_series |-> <<0, 0, 0, 0, 0, 1, 1, 0, 0>>, window_size |-> 5, step |-> 1]

\* The calls explored: the scenario and every series of two values.
RegimeCalls ==
    [time_series : SeqsUpTo({0, 1}, MaxRegime), window_size : 1..MaxWindow, step : 1..MaxStep]
        \cup {RegimeShift, RegimeBlip}

RgInit ==
    /\ rg_args \in RegimeCalls
    /\ rg_pc = "loop"
    /\ rg_start = 0
    /\ norms = <<>>
    /\ positions = <<>>
    /\ rg_result = NoResult

RgIdle ==
    /\ rg_args = <<>>
    /\ rg_pc = "idle"
    /\ rg_start = 0
    /\ norms = <<>>
    /\ positions = <<>>
    /\ rg_result = NoResult

\* Lines 142-172: one iteration of `for start in range(0, len(time_series) -
\* window_size, step)`.
RegimeWindow ==
    /\ rg_pc = "loop"
    /\ rg_start < Len(rg_args.time_series) - rg_args.window_size
    /\ LET window == Slice(rg_args.time_series, rg_start, rg_start + rg_args.window_size)
       IN norms' = Append(norms, RegimeNorm(window, rg_args.window_size))
    /\ positions' = Append(positions, rg_start + rg_args.window_size \div 2)
    /\ rg_start' = rg_start + rg_args.step
    /\ UNCHANGED <<rg_args, rg_pc, rg_result>>
    /\ UNCHANGED others_rg

\* Lines 176-177: fewer than 3 windows were analysed.
RegimeTooFewWindows ==
    /\ rg_pc = "loop"
    /\ rg_start >= Len(rg_args.time_series) - rg_args.window_size
    /\ Len(norms) < 3
    /\ rg_result' = [status |-> "returned", value |-> <<>>]
    /\ rg_pc' = "done"
    /\ UNCHANGED <<rg_args, rg_start, norms, positions>>
    /\ UNCHANGED others_rg

\* Lines 183-184: the norms do not change at all.
RegimeFlat ==
    /\ rg_pc = "loop"
    /\ rg_start >= Len(rg_args.time_series) - rg_args.window_size
    /\ Len(norms) >= 3
    /\ ThresholdVanishes(AbsDiff(norms))
    /\ rg_result' = [status |-> "returned", value |-> <<>>]
    /\ rg_pc' = "done"
    /\ UNCHANGED <<rg_args, rg_start, norms, positions>>
    /\ UNCHANGED others_rg

\* Lines 186-196.
RegimeReturn ==
    /\ rg_pc = "loop"
    /\ rg_start >= Len(rg_args.time_series) - rg_args.window_size
    /\ Len(norms) >= 3
    /\ ~ThresholdVanishes(AbsDiff(norms))
    /\ rg_result' = [status |-> "returned", value |-> ChangePoints(norms, positions)]
    /\ rg_pc' = "done"
    /\ UNCHANGED <<rg_args, rg_start, norms, positions>>
    /\ UNCHANGED others_rg

RgNext == RegimeWindow \/ RegimeTooFewWindows \/ RegimeFlat \/ RegimeReturn

-----------------------------------------------------------------------------
(* tda/timeseries.py: detect_anomalies_tada                                *)
(*                                                                         *)
(* Correlations and distances are fixed-point numbers in hundredths.  The  *)
(* calls explored have at most two channels, so that a window has one      *)
(* finite H0 lifespan d and the features (d, 0, d, 1); the covariance of   *)
(* the features then has one direction of variance and the Mahalanobis     *)
(* score of a window is a closed form of the d's.                          *)

\* Line 231.
MinLength(channels) == MinOf({Len(channels[c]) : c \in 1..Len(channels)})

\* Line 239: the rows start .. start + window_size - 1 of each channel.
ChannelWindow(channels, start, window_size) ==
    [c \in 1..Len(channels) |-> Slice(channels[c], start, start + window_size)]

\* n times the covariance sum of two windows: n * sum(x*y) - sum(x) * sum(y).
CrossSum(x, y) ==
    Len(x) * SumSeq([t \in 1..Len(x) |-> x[t] * y[t]]) - SumSeq(x) * SumSeq(y)

\* Lines 242-244: 1 - |corrcoef| of two channels of a window, 0 on the diagonal.
CorrDistance(x, y) ==
    100 - Isqrt((CrossSum(x, y) * CrossSum(x, y) * 10000)
                    \div (CrossSum(x, x) * CrossSum(y, y)))

\* Lines 247-259: the four features of a window.
TopoFeatures(window) ==
    LET dist == [a \in 1..Len(window) |-> [b \in 1..Len(window) |->
                    IF a = b THEN 0 ELSE CorrDistance(window[a], window[b])]]
        lifespans == Lifespans(Ripser(dist, 0, <<>>)[0])
        n == Len(lifespans)
        mean == SumSeq(lifespans) \div n
        var == SumSeq([k \in 1..n |-> (lifespans[k] - mean) * (lifespans[k] - mean)]) \div n
    IN IF n > 0 THEN <<mean, Isqrt(var), MaxSeq(lifespans), n>>
       ELSE <<0, 0, 0, 0>>

\* Lines 270-283: the squared Mahalanobis score of window i as <<numerator,
\* denominator>>.  With N windows, X = N*d[i] - sum(d) and
\* V = N*sum(d*d) - sum(d)^2 the score squared is
\* 2*(N-1)*X^2 / (2*N*V + N^2*(N-1)*ridge), the ridge 1e-6 being 1/100 of the
\* unit of d*d.
MahaSquared(i, feats) ==
    LET N == Len(feats)
        d == [k \in 1..N |-> feats[k][1]]
        S == SumSeq(d)
        X == N * d[i] - S
        V == N * SumSeq([k \in 1..N |-> d[k] * d[k]]) - S * S
    IN <<200 * (N - 1) * X * X, 200 * N * V + N * N * (N - 1)>>

\* maha > bound, for a whole number bound.
MahaAbove(score, bound) == score[1] > bound * bound * score[2]

\* Lines 277-296.
TadaAnomalies(feats, pos) ==
    LET flagged == SelectSeq([i \in 1..Len(feats) |-> i],
                             LAMBDA i : MahaAbove(MahaSquared(i, feats), 3))
    IN [j \in 1..Len(flagged) |->
          LET i == flagged[j]
          IN [position |-> pos[i],
              mahalanobis_score |-> [sqrt_of |-> MahaSquared(i, feats)],
              severity |-> IF MahaAbove(MahaSquared(i, feats), 5) THEN "high" ELSE "medium",
              feature_values |-> [mean_lifespan |-> feats[i][1],
                                  std_lifespan |-> feats[i][2],
                                  max_lifespan |-> feats[i][3],
                                  num_components |-> feats[i][4]]]]

\* The starts of the loop of line 238.
TadaStarts(channels, window_size, step) ==
    {s \in 0..(MinLength(channels) - window_size - 1) : s % step = 0}

\* np.corrcoef is defined on every analysed window: no channel is constant
\* in it.
WindowsVary(channels, window_size, step) ==
    \A s \in TadaStarts(channels, window_size, step) :
        \A c \in 1..Len(channels) :
            Cardinality(Range(Slice(channels[c], s, s + window_size))) > 1

\* Two channels of fourteen days that move together.
Alternating == [t \in 1..14 |-> (t - 1) % 2]

\* Alternating with one day changed: the last analysed window of three days
\* has correlation 0.5 where the ten before it have 1.
AlternatingButOne == [Alternating EXCEPT ![13] = 1]

\* The calls explored: none, one or two short channels of two values, and the
\* two scenarios.
TadaCalls ==
    LET Channels == SeqsUpTo({0, 1}, MaxChannel)
        Lists == {<<>>} \cup {<<x>> : x \in Channels}
                    \cup {<<x, y>> : x \in Channels, y \in Channels}
                    \cup {<<Alternating, Alternating>>, <<Alternating, AlternatingButOne>>}
    IN {a \in [booking_channels : Lists, window_size : 2..MaxTadaWindow, step : 1..MaxStep] :
          Len(a.booking_channels) >= 2
              => WindowsVary(a.booking_channels, a.window_size, a.step)}

TaInit ==
    /\ ta_args \in TadaCalls
    /\ ta_pc = "start"
    /\ ta_start = 0
    /\ topo_features = <<>>
    /\ ta_positions = <<>>
    /\ ta_result = NoResult

TaIdle ==
    /\ ta_args = <<>>
    /\ ta_pc = "idle"
    /\ ta_start = 0
    /\ topo_features = <<>>
    /\ ta_positions = <<>>
    /\ ta_result = NoResult

\* Lines 225-228.
TadaTooFewChannels ==
    /\ ta_pc = "start"
    /\ Len(ta_args.booking_channels) < 2
    /\ ta_result' = [status |-> "returned", value |-> <<>>]
    /\ ta_pc' = "done"
    /\ UNCHANGED <<ta_args, ta_start, topo_features, ta_positions>>
    /\ UNCHANGED others_ta

\* Lines 231-236.
TadaStack ==
    /\ ta_pc = "start"
    /\ Len(ta_args.booking_channels) >= 2
    /\ ta_pc' = "loop"
    /\ UNCHANGED <<ta_args, ta_start, topo_features, ta_positions, ta_result>>
    /\ UNCHANGED others_ta

\* Lines 238-262: one iteration of `for start in range(0, T - window_size, step)`.
TadaWindow ==
    /\ ta_pc = "loop"
    /\ ta_start < MinLength(ta_args.booking_channels) - ta_args.window_size
    /\ topo_features' = Append(topo_features,
           TopoFeatures(ChannelWindow(ta_args.booking_channels, ta_start, ta_args.window_size)))
    /\ ta_positions' = Append(ta_positions, ta_start + ta_args.window_size \div 2)
    /\ ta_start' = ta_start + ta_args.step
    /\ UNCHANGED <<ta_args, ta_pc, ta_result>>
    /\ UNCHANGED others_ta

\* Lines 264-265: fewer than 10 windows were analysed.
TadaTooFewWindows ==
    /\ ta_pc = "loop"
    /\ ta_start >= MinLength(ta_args.booking_channels) - ta_args.window_size
    /\ Len(topo_features) < 10
    /\ ta_result' = [status |-> "returned", value |-> <<>>]
    /\ ta_pc' = "done"
    /\ UNCHANGED <<ta_args, ta_start, topo_features, ta_positions>>
    /\ UNCHANGED others_ta

\* Lines 267-298.
TadaReturn ==
    /\ ta_pc = "loop"
    /\ ta_start >= MinLength(ta_args.booking_channels) - ta_args.window_size
    /\ Len(topo_features) >= 10
    /\ ta_result' = [status |-> "returned", value |-> TadaAnomalies(topo_features, ta_positions)]
    /\ ta_pc' = "done"
    /\ UNCHANGED <<ta_args, ta_start, topo_features, ta_positions>>
    /\ UNCHANGED others_ta

TaNext ==
    \/ TadaTooFewChannels
    \/ TadaStack
    \/ TadaWindow
    \/ TadaTooFewWindows
    \/ TadaReturn

-----------------------------------------------------------------------------
(* tda/layout.py: analyze_floor_plan_topology                              *)
(*                                                                         *)
(* Coordinates and sizes are in tenths of a foot; filtration values of the *)
(* alpha complex are squared radii in square feet.  gudhi is an external   *)
(* package: the intervals it returns for a cloud are an input of the       *)
(* function, any diagram of a bounded set.                                 *)

\* Line 23: the default of connectivity_threshold_ft.
CONNECTIVITY_THRESHOLD_FT == 3

\* Lines 51-63: the centre and the four corners of one item.
ItemPoints(item) ==
    LET cx == item.x
        cy == item.y
        w == item.width
        d == item.depth
    IN <<<<cx, cy>>,
         <<cx - w \div 2, cy - d \div 2>>,
         <<cx + w \div 2, cy - d \div 2>>,
         <<cx - w \div 2, cy + d \div 2>>,
         <<cx + w \div 2, cy + d \div 2>>>>

\* Lines 49-65.
RECURSIVE FurniturePoints(_)
FurniturePoints(furniture_positions) ==
    IF furniture_positions = <<>> THEN <<>>
    ELSE ItemPoints(Head(furniture_positions)) \o FurniturePoints(Tail(furniture_positions))

\* Line 67: the test of the early return.
TooFewPoints(points) == Len(points) < 4

\* Lines 68-74.
DegenerateLayout(points) ==
    [dead_spaces |-> <<>>,
     coverage_score |-> <<0, 1>>,
     connectivity_score |-> <<0, 1>>,
     persistence_diagram |-> [H0 |-> <<>>, H1 |-> <<>>],
     num_furniture_points |-> Len(points)]

\* Lines 92-104: the finite H1 intervals longer than the squared threshold.
DeadSpaces(h1, dead_space_threshold_ft) ==
    LET alpha_threshold == dead_space_threshold_ft * dead_space_threshold_ft
        found == SelectSeq(h1, LAMBDA p : p[2] # Infinity /\ p[2] - p[1] > alpha_threshold)
    IN [k \in 1..Len(found) |->
          LET birth == found[k][1]
              death == found[k][2]
          IN [birth_radius |-> [sqrt_of |-> birth],
              death_radius |-> [sqrt_of |-> death],
              persistence |-> [sqrt_of |-> death - birth],
              approx_diameter_ft |-> [sqrt_of |-> 4 * death],
              severity |-> IF death - birth > alpha_threshold * 2 THEN "high" ELSE "medium"]]

\* _polygon_area (lines 186-198), doubled: the absolute shoelace sum.
PolygonAreaTwice(vertices) ==
    LET n == Len(vertices)
    IN IF n < 3 THEN 0
       ELSE Abs(SumSeq([i \in 1..n |->
                vertices[i][1] * vertices[(i % n) + 1][2]
                    - vertices[(i % n) + 1][1] * vertices[i][2]]))

\* Lines 106-112.
CoverageScore(furniture_positions, room_boundary) ==
    LET room_twice == PolygonAreaTwice(room_boundary)
        covered_area == SumSeq([k \in 1..Len(furniture_positions) |->
                           furniture_positions[k].width * furniture_positions[k].depth])
    IN IF room_twice > 0
       THEN (IF 2 * covered_area > room_twice THEN <<1, 1>>
             ELSE Frac(2 * covered_area, room_twice))
       ELSE <<0, 1>>

\* Lines 115-119.
ConnectivityScore(h0) ==
    LET h0_lifespans == Lifespans(h0)
        conn_threshold_sq == CONNECTIVITY_THRESHOLD_FT * CONNECTIVITY_THRESHOLD_FT
        long_lived_h0 == Len(SelectSeq(h0_lifespans, LAMBDA l : l > conn_threshold_sq))
    IN Frac(1, 1 + long_lived_h0)

\* Lines 121-130.
LayoutResult(args, points, h0, h1) ==
    [dead_spaces |-> DeadSpaces(h1, args.dead_space_threshold_ft),
     coverage_score |-> CoverageScore(args.furniture_positions, args.room_boundary),
     connectivity_score |-> ConnectivityScore(h0),
     persistence_diagram |-> [H0 |-> h0, H1 |-> h1],
     num_furniture_points |-> Len(points)]

\* The intervals gudhi may return for a cloud: in dimension 0 finite
\* intervals born at 0 and the one infinite interval, in dimension 1 finite
\* intervals.
AlphaIntervals ==
    [h0 : {finite \o <<<<0, Infinity>>>> : finite \in SeqsUpTo({<<0, 4>>, <<0, 16>>}, MaxGroups)},
     h1 : SeqsUpTo({<<1, 2>>, <<1, 50>>, <<1, 100>>}, MaxHoles)]

\* The calls explored: up to MaxFurniture items of two feet by two feet, no
\* room, a room smaller than two items and a room of ten feet by ten feet.
LayoutCalls ==
    [furniture_positions : SeqsUpTo([x : {0, 40}, y : {0}, width : {20}, depth : {20}],
                                    MaxFurniture),
     room_boundary : {<<>>,
                      <<<<0, 0>>, <<20, 0>>, <<20, 20>>, <<0, 20>>>>,
                      <<<<0, 0>>, <<100, 0>>, <<100, 100>>, <<0, 100>>>>},
     dead_space_threshold_ft : {2, 6}]

LyInit ==
    /\ ly_args \in LayoutCalls
    /\ ly_pc = "points"
    /\ points_arr = <<>>
    /\ intervals = NoResult
    /\ ly_result = NoResult

LyIdle ==
    /\ ly_args = <<>>
    /\ ly_pc = "idle"
    /\ points_arr = <<>>
    /\ intervals = NoResult
    /\ ly_result = NoResult

\* Lines 48-65.
LayoutPoints ==
    /\ ly_pc = "points"
    /\ points_arr' = FurniturePoints(ly_args.furniture_positions)
    /\ ly_pc' = "check"
    /\ UNCHANGED <<ly_args, intervals, ly_result>>
    /\ UNCHANGED others_ly

\* Lines 67-74: fewer than 4 points.
LayoutDegenerate ==
    /\ ly_pc = "check"
    /\ TooFewPoints(points_arr)
    /\ ly_result' = [status |-> "returned", value |-> DegenerateLayout(points_arr)]
    /\ ly_pc' = "done"
    /\ UNCHANGED <<ly_args, points_arr, intervals>>
    /\ UNCHANGED others_ly

\* Lines 76-88: the alpha complex and its intervals.
LayoutPersistence ==
    /\ ly_pc = "check"
    /\ ~TooFewPoints(points_arr)
    /\ intervals' \in AlphaIntervals
    /\ ly_pc' = "score"
    /\ UNCHANGED <<ly_args, points_arr, ly_result>>
    /\ UNCHANGED others_ly

\* Lines 90-130.
LayoutReturn ==
    /\ ly_pc = "score"
    /\ ly_result' = [status |-> "returned",
                     value |-> LayoutResult(ly_args, points_arr, intervals.h0, intervals.h1)]
    /\ ly_pc' = "done"
    /\ UNCHANGED <<ly_args, points_arr, intervals>>
    /\ UNCHANGED others_ly

LyNext == LayoutPoints \/ LayoutDegenerate \/ LayoutPersistence \/ LayoutReturn

-----------------------------------------------------------------------------
(* tda/mapper.py                                                           *)
(*                                                                         *)
(* kmapper, PCA and DBSCAN are external packages: the graph mapper.map()   *)
(* returns for the joint features is an input of the functions, any graph  *)
(* of a bounded set.  Nodes are numbered 1..k for their ids; a link is     *)
(* stored once, under the smaller of its two ids, as kmapper stores it.    *)
(* The order in which Python iterates over a set is not fixed by the       *)
(* sources: every order is explored.                                       *)

\* The members of a set of numbers in ascending order.
Ascending(S) ==
    CHOOSE q \in [1..Cardinality(S) -> S] : \A i, j \in DOMAIN q : i < j => q[i] < q[j]

\* The orders in which the members of a set can be iterated.
Orders(S) == {q \in [1..Cardinality(S) -> S] : \A i, j \in DOMAIN q : i # j => q[i] # q[j]}

\* graph["links"] for a set of pairs <<source, target>>: a dict from each
\* source to the list of its targets.
LinksOf(pairs) ==
    [s \in {p[1] : p \in pairs} |-> Ascending({p[2] : p \in {x \in pairs : x[1] = s}})]

\* The graphs explored for a joint space of `total` rows: up to MaxNodes
\* nodes, each holding row 0 or every row, and any set of links.
MapperGraphs(total) ==
    {[nodes |-> [id \in 1..k |-> members], links |-> LinksOf(pairs)] :
        k \in 0..MaxNodes,
        members \in {<<0>>, [m \in 1..total |-> m - 1]},
        pairs \in SUBSET {p \in (1..MaxNodes) \X (1..MaxNodes) : p[1] < p[2]}}

\* A graph whose links name nodes only.
WellFormed(g) ==
    \A s \in DOMAIN g.links :
        s \in DOMAIN g.nodes /\ \A i \in DOMAIN g.links[s] : g.links[s][i] \in DOMAIN g.nodes

\* Lines 75-87: the node list.
MapperNodes(g, scores) ==
    LET n_events == Len(scores[1])
        X(m) == scores[(m \div n_events) + 1][(m % n_events) + 1]
    IN [id \in 1..Len(g.nodes) |->
          LET members == g.nodes[id]
          IN [id |-> id,
              size |-> Len(members),
              mean_compatibility |-> MeanOf([i \in 1..Len(members) |-> X(members[i])]),
              member_indices |-> members,
              pairs |-> [i \in 1..Len(members) |->
                           [venue_idx |-> members[i] \div n_events,
                            event_idx |-> members[i] % n_events]]]]

\* Lines 89-92: the edge list, source by source.
RECURSIVE MapperEdges(_, _)
MapperEdges(links, sources) ==
    IF sources = <<>> THEN <<>>
    ELSE [i \in 1..Len(links[Head(sources)]) |->
             [source |-> Head(sources), target |-> links[Head(sources)][i]]]
         \o MapperEdges(links, Tail(sources))

\* Adjacency with line 175 left out: a link joins its source to its target
\* only.
AdjacencyOneWay(g) ==
    [nid \in DOMAIN g.nodes |->
        {t \in DOMAIN g.nodes : nid \in DOMAIN g.links /\ t \in Range(g.links[nid])}]

\* Lines 170-175: both directions of every link.
Adjacency(g) ==
    [nid \in DOMAIN g.nodes |->
        {t \in DOMAIN g.nodes :
            \/ nid \in DOMAIN g.links /\ t \in Range(g.links[nid])
            \/ t \in DOMAIN g.links /\ nid \in Range(g.links[t])}]

\* Lines 97-106, and line 161 for build_mapper_with_html.
MapperResult(args, g, num_components, html) ==
    LET nodes == MapperNodes(g, args.compatibility_scores)
        edges == MapperEdges(g.links, Ascending(DOMAIN g.links))
        base == [nodes |-> nodes,
                 edges |-> edges,
                 stats |-> [num_nodes |-> Len(nodes),
                            num_edges |-> Len(edges),
                            connected_components |-> num_components,
                            total_pairs |-> Len(args.compatibility_scores)
                                              * Len(args.compatibility_scores[1])]]
    IN IF html THEN [k \in DOMAIN base \cup {"html"} |->
                        IF k = "html" THEN [html_of |-> g] ELSE base[k]]
       ELSE base

\* The calls explored: either function on one or two venues and events, the
\* score of venue i and event j being (i + j) mod 2.
MapperCalls ==
    {[fn |-> f, compatibility_scores |-> [i \in 1..v |-> [j \in 1..e |-> (i + j) % 2]]] :
        f \in {"build_compatibility_mapper", "build_mapper_with_html"},
        v \in 1..2, e \in 1..2}

NoGraph == [nodes |-> <<>>, links |-> <<>>]

MpInit ==
    /\ mp_args \in MapperCalls
    /\ mp_pc = "map"
    /\ graph = NoGraph
    /\ adj = <<>>
    /\ visited = {}
    /\ components = 0
    /\ queue = <<>>
    /\ remaining = {}
    /\ expanded = <<>>
    /\ files = <<>>
    /\ mp_result = NoResult

MpIdle ==
    /\ mp_args = <<>>
    /\ mp_pc = "idle"
    /\ graph = NoGraph
    /\ adj = <<>>
    /\ visited = {}
    /\ components = 0
    /\ queue = <<>>
    /\ remaining = {}
    /\ expanded = <<>>
    /\ files = <<>>
    /\ mp_result = NoResult

\* Lines 47-72 (lines 121-148 of build_mapper_with_html): the joint features,
\* the lens and the graph.
MapperMap ==
    /\ mp_pc = "map"
    /\ \E g \in MapperGraphs(Len(mp_args.compatibility_scores)
                               * Len(mp_args.compatibility_scores[1])) :
          /\ WellFormed(g)
          /\ graph' = g
    /\ mp_pc' = IF mp_args.fn = "build_mapper_with_html" THEN "visualize" ELSE "count"
    /\ UNCHANGED <<mp_args, adj, visited, components, queue, remaining, expanded, files,
                   mp_result>>
    /\ UNCHANGED others_mp

\* Lines 150-160: mapper.visualize(graph, path_html="mapper_graph.html", ...)
\* saves the page under path_html and returns it; build_compatibility_mapper
\* then maps the same features again.
MapperVisualize ==
    /\ mp_pc = "visualize"
    /\ files' = [path \in DOMAIN files \cup {"mapper_graph.html"} |->
                    IF path = "mapper_graph.html" THEN [html_of |-> graph] ELSE files[path]]
    /\ mp_pc' = "count"
    /\ UNCHANGED <<mp_args, graph, adj, visited, components, queue, remaining, expanded,
                   mp_result>>
    /\ UNCHANGED others_mp

\* Lines 167-168: a graph without nodes.
CountEmpty ==
    /\ mp_pc = "count"
    /\ graph.nodes = <<>>
    /\ components' = 0
    /\ mp_pc' = "return"
    /\ UNCHANGED <<mp_args, graph, adj, visited, queue, remaining, expanded, files, mp_result>>
    /\ UNCHANGED others_mp

\* Lines 170-178.
CountAdjacency ==
    /\ mp_pc = "count"
    /\ graph.nodes # <<>>
    /\ adj' = Adjacency(graph)
    /\ visited' = {}
    /\ components' = 0
    /\ remaining' = DOMAIN graph.nodes
    /\ mp_pc' = "nodes"
    /\ UNCHANGED <<mp_args, graph, queue, expanded, files, mp_result>>
    /\ UNCHANGED others_mp

\* Lines 180-182: the next node of the loop was reached before.
CountSkipNode ==
    /\ mp_pc = "nodes"
    /\ \E node \in remaining :
          /\ node \in visited
          /\ remaining' = remaining \ {node}
    /\ UNCHANGED <<mp_args, mp_pc, graph, adj, visited, components, queue, expanded, files,
                   mp_result>>
    /\ UNCHANGED others_mp

\* Lines 180-184: the next node of the loop starts a component.
CountNewComponent ==
    /\ mp_pc = "nodes"
    /\ \E node \in remaining :
          /\ node \notin visited
          /\ remaining' = remaining \ {node}
          /\ queue' = <<node>>
    /\ components' = components + 1
    /\ mp_pc' = "search"
    /\ UNCHANGED <<mp_args, graph, adj, visited, expanded, files, mp_result>>
    /\ UNCHANGED others_mp

\* Lines 185-188: the popped node was visited already.
CountPopVisited ==
    /\ mp_pc = "search"
    /\ queue # <<>>
    /\ queue[Len(queue)] \in visited
    /\ queue' = SubSeq(queue, 1, Len(queue) - 1)
    /\ UNCHANGED <<mp_args, mp_pc, graph, adj, visited, components, remaining, expanded, files,
                   mp_result>>
    /\ UNCHANGED others_mp

\* Lines 185-192: the popped node is visited and its unvisited neighbours
\* are appended.
CountVisit ==
    /\ mp_pc = "search"
    /\ queue # <<>>
    /\ LET current == queue[Len(queue)]
       IN /\ current \notin visited
          /\ visited' = visited \cup {current}
          /\ expanded' = Append(expanded, current)
          /\ \E order \in Orders(adj[current] \ (visited \cup {current})) :
                queue' = SubSeq(queue, 1, Len(queue) - 1) \o order
    /\ UNCHANGED <<mp_args, mp_pc, graph, adj, components, remaining, files, mp_result>>
    /\ UNCHANGED others_mp

\* Line 185: the queue is empty, the component is complete.
CountComponentDone ==
    /\ mp_pc = "search"
    /\ queue = <<>>
    /\ mp_pc' = "nodes"
    /\ UNCHANGED <<mp_args, graph, adj, visited, components, queue, remaining, expanded, files,
                   mp_result>>
    /\ UNCHANGED others_mp

\* Line 194.
CountReturn ==
    /\ mp_pc = "nodes"
    /\ remaining = {}
    /\ mp_pc' = "return"
    /\ UNCHANGED <<mp_args, graph, adj, visited, components, queue, remaining, expanded, files,
                   mp_result>>
    /\ UNCHANGED others_mp

\* Lines 95-106 and 161-162.
MapperReturn ==
    /\ mp_pc = "return"
    /\ mp_result' = [status |-> "returned",
                     value |-> MapperResult(mp_args, graph, components,
                                            mp_args.fn = "build_mapper_with_html")]
    /\ mp_pc' = "done"
    /\ UNCHANGED <<mp_args, graph, adj, visited, components, queue, remaining, expanded, files>>
    /\ UNCHANGED others_mp

MpNext ==
    \/ MapperMap
    \/ MapperVisualize
    \/ CountEmpty
    \/ CountAdjacency
    \/ CountSkipNode
    \/ CountNewComponent
    \/ CountPopVisited
    \/ CountVisit
    \/ CountComponentDone
    \/ CountReturn
    \/ MapperReturn

-----------------------------------------------------------------------------
(* The specifications.                                                     *)

\* build_booking_simplicial_complex on a booking list.
Init == SInit /\ ScIdle /\ CpIdle /\ MsIdle /\ VzIdle /\ TkIdle /\ PdIdle /\ RtIdle /\ RgIdle /\ TaIdle /\ LyIdle /\ MpIdle

Next == SNext

Spec == Init /\ [][Next]_vars

\* compute_persistence_scaled on a matrix of n_points points.
InitScale == ScInit /\ SIdle /\ CpIdle /\ MsIdle /\ VzIdle /\ TkIdle /\ PdIdle /\ RtIdle /\ RgIdle /\ TaIdle /\ LyIdle /\ MpIdle

NextScale == ScNext

SpecScale == InitScale /\ [][NextScale]_vars

\* compute_persistence on a distance matrix.
InitRips == CpInit /\ SIdle /\ ScIdle /\ MsIdle /\ VzIdle /\ TkIdle /\ PdIdle /\ RtIdle /\ RgIdle /\ TaIdle /\ LyIdle /\ MpIdle

NextRips == CpNext

SpecRips == InitRips /\ [][NextRips]_vars

\* _multi_subsample_persistence, called twice with the same arguments.
InitMulti == MsInit /\ SIdle /\ ScIdle /\ CpIdle /\ VzIdle /\ TkIdle /\ PdIdle /\ RtIdle /\ RgIdle /\ TaIdle /\ LyIdle /\ MpIdle

NextMulti == MsNext

SpecMulti == InitMulti /\ [][NextMulti]_vars

\* persistence_statistics on a diagram set.
InitVec == VzInit /\ SIdle /\ ScIdle /\ CpIdle /\ MsIdle /\ TkIdle /\ PdIdle /\ RtIdle /\ RgIdle /\ TaIdle /\ LyIdle /\ MpIdle

NextVec == VzNext

SpecVec == InitVec /\ [][NextVec]_vars

\* takens_embedding on a series.
InitTakens == TkInit /\ SIdle /\ ScIdle /\ CpIdle /\ MsIdle /\ VzIdle /\ PdIdle /\ RtIdle /\ RgIdle /\ TaIdle /\ LyIdle /\ MpIdle

NextTakens == TkNext

SpecTakens == InitTakens /\ [][NextTakens]_vars

\* detect_periodicity_sw1pers on a series and a list of candidate periods.
InitPeriod == PdInit /\ SIdle /\ ScIdle /\ CpIdle /\ MsIdle /\ VzIdle /\ TkIdle /\ RtIdle /\ RgIdle /\ TaIdle /\ LyIdle /\ MpIdle

NextPeriod == PdNext

SpecPeriod == InitPeriod /\ [][NextPeriod]_vars

\* One request to /persistence or /persistence/diagram.
InitRoute == RtInit /\ SIdle /\ ScIdle /\ CpIdle /\ MsIdle /\ VzIdle /\ TkIdle /\ PdIdle /\ RgIdle /\ TaIdle /\ LyIdle /\ MpIdle

NextRoute == RtNext

SpecRoute == InitRoute /\ [][NextRoute]_vars

\* One call of a sliding-window detector: detect_regime_changes or
\* detect_anomalies_tada.
InitWindows == ((RgInit /\ TaIdle) \/ (RgIdle /\ TaInit)) /\ SIdle /\ ScIdle /\ CpIdle /\ MsIdle /\ VzIdle /\ TkIdle /\ PdIdle /\ RtIdle /\ LyIdle /\ MpIdle

NextWindows == RgNext \/ TaNext

SpecWindows == InitWindows /\ [][NextWindows]_vars

\* analyze_floor_plan_topology on a layout.
InitLayout == LyInit /\ SIdle /\ ScIdle /\ CpIdle /\ MsIdle /\ VzIdle /\ TkIdle /\ PdIdle /\ RtIdle /\ RgIdle /\ TaIdle /\ MpIdle

NextLayout == LyNext

SpecLayout == InitLayout /\ [][NextLayout]_vars

\* build_compatibility_mapper or build_mapper_with_html on a joint space.
InitMapper == MpInit /\ SIdle /\ ScIdle /\ CpIdle /\ MsIdle /\ VzIdle /\ TkIdle /\ PdIdle /\ RtIdle /\ RgIdle /\ TaIdle /\ LyIdle

NextMapper == MpNext

SpecMapper == InitMapper /\ [][NextMapper]_vars

\* The same, every step of the functions being taken eventually: Python runs
\* a call to its end.
SpecMapperFair == SpecMapper /\ WF_vars(NextMapper)

-----------------------------------------------------------------------------
(* Properties of the booking complex (specification Spec).                 *)

Returned == result.status = "returned"

\* The simplices of dimension d of the returned complex.
Simplices(d) == Get(result.simplices, d, {})

\* The vertex set T is present as a simplex of dimension |T| - 1.
Present(T) ==
    \E t \in Simplices(Cardinality(T) - 1) : Range(t) = T /\ Len(t) = Cardinality(T)

NonEmptySubsets(S) == SUBSET S \ {{}}

\* C1. Downward closure: in the returned complex, every nonempty subset of
\* the vertex set of every simplex of every dimension is itself present as a
\* simplex of the dimension of its size.
C1_DownwardClosure ==
    Returned =>
        \A d \in DOMAIN result.simplices : \A s \in result.simplices[d] :
            \A T \in NonEmptySubsets(Range(s)) : Present(T)

\* A returned complex with the five tetrahedra of a booking of five entities.
C1_Witness ==
    /\ Returned
    /\ Cardinality(Simplices(3)) = 5

\* The entity set of booking i.
EntitySet(i) == Range(AllEntities(bookings[i]))

\* C2 as stated: every nonempty subset of the entity set of every booking is
\* a simplex of the returned complex, whatever the number of vendors.
C2_AllSubsetsAdded ==
    Returned =>
        \A i \in DOMAIN bookings : \A T \in NonEmptySubsets(EntitySet(i)) : Present(T)

\* C2 as amended: every nonempty subset of at most four entities of the
\* entity set of every booking is a simplex of the returned complex.
C2_SubsetsUpToFourAdded ==
    Returned =>
        \A i \in DOMAIN bookings : \A T \in NonEmptySubsets(EntitySet(i)) :
            Cardinality(T) <= 4 => Present(T)

\* A returned complex of a booking that names five distinct entities.
C2_Witness ==
    /\ Returned
    /\ \E i \in DOMAIN bookings : Cardinality(EntitySet(i)) = 5

\* C3. A single booking over four distinct entities (venue, event, timeslot
\* and one vendor) returns 4 vertices, 6 edges, 4 triangles, 1 tetrahedron
\* and beta_0 = 1.
C3_FourWayRelation ==
    (Returned /\ Len(bookings) = 1 /\ Len(Get(bookings[1], "vendor_ids", <<>>)) = 1) =>
        /\ DOMAIN result.counts = 0..3
        /\ result.counts[0] = 4
        /\ result.counts[1] = 6
        /\ result.counts[2] = 4
        /\ result.counts[3] = 1
        /\ result.num_entities = 4
        /\ result.betti_numbers[0] = 1

\* The complex of a single booking with one vendor has been returned.
C3_Witness ==
    /\ Returned
    /\ Len(bookings) = 1
    /\ Len(Get(bookings[1], "vendor_ids", <<>>)) = 1

\* The graph of the returned complex: its 0-simplices and its 1-simplices.
Vertices == {s[1] : s \in Simplices(0)}

Adjacent(u, v) == \E e \in Simplices(1) : Range(e) = {u, v}

\* The vertices reachable from the set R along edges.
RECURSIVE ReachFrom(_)
ReachFrom(R) ==
    LET more == {v \in Vertices : \E u \in R : Adjacent(u, v)} \cup R
    IN IF more = R THEN R ELSE ReachFrom(more)

\* The number of connected components of that graph.
Components == Cardinality({ReachFrom({v}) : v \in Vertices})

\* C4. The reported beta_0 is the number of connected components of the
\* graph of 0-simplices and 1-simplices, whatever the order in which the
\* edges were processed, and it is 0 only for the empty complex.
C4_BetaZeroIsComponents ==
    Returned =>
        /\ result.betti_numbers[0] = Components
        /\ (result.betti_numbers[0] = 0 <=> Vertices = {})

\* A returned complex with two components, and edges processed.
C4_Witness ==
    /\ Returned
    /\ Components = 2
    /\ Simplices(1) # {}

\* The number n_j of j-simplices of the returned complex.
NumSimplices(j) == Cardinality(Simplices(j))

-----------------------------------------------------------------------------
(* Properties of the size-adaptive strategy (specification SpecScale).     *)

-----------------------------------------------------------------------------
(* Properties of compute_persistence (specification SpecRips).             *)

\* The matrix of the filtration and the threshold of the call in progress.
FiltrationMatrix == eng.dm

Joined(i, j) ==
    /\ i # j
    /\ "threshold" \in DOMAIN cp_args => FiltrationMatrix[i][j] <= cp_args.threshold

\* The points joined to the set R by edges of the final complex.
RECURSIVE JoinedTo(_)
JoinedTo(R) ==
    LET more == R \cup {j \in 1..NumPoints(FiltrationMatrix) : \E i \in R : Joined(i, j)}
    IN IF more = R THEN R ELSE JoinedTo(more)

\* The number of connected components of the complex at the end of the
\* filtration.
FinalComponents ==
    Cardinality({JoinedTo({i}) : i \in 1..NumPoints(FiltrationMatrix)})

CountWhere(dgm, Test(_)) == Cardinality({i \in 1..Len(dgm) : Test(dgm[i])})

IsFinite(pair) == pair[2] # Infinity

IsInfinite(pair) == pair[2] = Infinity

C11_TriangleLoop ==
    (cp_pc = "done" /\ cp_args = TriangleLoop) =>
        LET dgms == cp_result.value.diagrams IN
        /\ Len(dgms[0]) = 3
        /\ CountWhere(dgms[0], IsFinite) = 2
        /\ CountWhere(dgms[0], IsInfinite) = 1
        /\ \A k \in 1..3 : IsFinite(dgms[0][k]) => dgms[0][k] = <<0, 10>>
        /\ dgms[1] = << <<10, 10>> >>

C11_Witness ==
    /\ cp_pc = "done"
    /\ cp_args = TriangleLoop
    /\ Len(eng.order) = 7
    /\ cp_result.value.stats[1].count = 1

\* The simplices the filtration of the call retains.
Retained == Range(eng.order)

\* C12. Filtration monotonicity: every face of a retained simplex is retained
\* (under any threshold), is born no later than the simplex and comes before
\* it in the filtration; the birth of a simplex is the largest distance
\* between two of its vertices, and none is above the threshold.
C12_FiltrationMonotone ==
    cp_pc \in {"ripser", "done"} =>
        \A i \in 1..Len(eng.order) :
            LET s == eng.order[i] IN
            /\ \E u, v \in s : Birth(eng.dm, s) = eng.dm[u][v]
            /\ \A u, v \in s : eng.dm[u][v] <= Birth(eng.dm, s)
            /\ "threshold" \in DOMAIN cp_args => Birth(eng.dm, s) <= cp_args.threshold
            /\ \A f \in (SUBSET s) \ {{}, s} :
                  /\ f \in Retained
                  /\ Birth(eng.dm, f) <= Birth(eng.dm, s)
                  /\ IndexOf(eng.order, f) < i

\* A filtration whose threshold discards an edge and keeps a triangle.
C12_Witness ==
    /\ cp_pc = "ripser"
    /\ "threshold" \in DOMAIN cp_args
    /\ \E s \in Retained : Dim(s) = 2
    /\ \E u, v \in DOMAIN eng.dm : u # v /\ {u, v} \notin Retained

-----------------------------------------------------------------------------
(* Properties of the multi-subsample path (specification SpecMulti).       *)

\* The dict the call in progress has just returned.
LastResult == ms_results[Len(ms_results)]

\* The values of a statistic field of dimension d over the subsample results
\* of the call that have finite features in that dimension, as rationals.
FieldValues(d, field) ==
    LET having == SelectSeq(sub_results, LAMBDA r : r.stats[d].count > 0)
        AsFrac(v) == IF field \in {"count", "max_lifespan"} THEN Frac(v, 1) ELSE v
    IN [i \in 1..Len(having) |-> AsFrac(having[i].stats[d][field])]

\* C8 as stated: every statistic field of every dimension of the returned
\* dict is the arithmetic mean of that field over the subsample results, and
\* every diagram is empty.
C8_StatsAreMeans ==
    ms_pc = "returned" =>
        \A d \in 0..ms_args.max_dim :
            /\ LastResult.diagrams[d] = <<>>
            /\ \A field \in {"count", "mean_lifespan", "median_lifespan",
                             "max_lifespan", "iqr_lifespan"} :
                  LET values == FieldValues(d, field)
                      reported == LastResult.stats[d]
                  IN Len(values) > 0 =>
                        /\ field \in DOMAIN reported
                        /\ (IF field \in {"count", "max_lifespan"}
                            THEN Frac(reported[field], 1)
                            ELSE reported[field]) = FracMean(values)

\* C9 as stated: two calls with identical arguments return identical results.
C9_Deterministic ==
    Len(ms_results) = 2 => ms_results[1] = ms_results[2]

\* s is strictly increasing in the order of entity strings.
StrictlySorted(s) == \A i \in 1..(Len(s) - 1) : EntLT(s[i], s[i + 1])

\* C6 as stated: every simplex of dimension k of the returned complex is k+1
\* pairwise distinct vertex ids in sorted order, and no two simplices of a
\* dimension have the same vertex set.
C6_SimplicesCanonical ==
    Returned =>
        \A d \in DOMAIN result.simplices :
            /\ \A s \in result.simplices[d] :
                  /\ Len(s) = d + 1
                  /\ Cardinality(Range(s)) = d + 1
                  /\ StrictlySorted(s)
            /\ \A s, t \in result.simplices[d] : Range(s) = Range(t) => s = t

-----------------------------------------------------------------------------
(* Properties of persistence_statistics (specification SpecVec).           *)

\* The block of the k-th dimension of a returned vector.
BlockOf(vector, k) ==
    [i \in 1..FEATURES_PER_DIM |-> vector[(k - 1) * FEATURES_PER_DIM + i]]

\* The diagram has a pair whose birth and death are both finite.
HasFiniteLifespan(dgm) ==
    \E i \in 1..Len(dgm) : dgm[i][1] # Infinity /\ dgm[i][2] # Infinity

\* C13. The returned vector has length 36 (twelve entries per dimension
\* processed so far while the loop runs), and the block of a dimension whose
\* key is missing, whose diagram is empty or has no finite-lifespan pair is
\* all zeros.
C13_VectorLength ==
    /\ vz_pc = "loop" => Len(features) = FEATURES_PER_DIM * (vz_dim - 1)
    /\ vz_pc = "done" =>
          /\ Len(vz_result.value) = 36
          /\ \A k \in 1..3 :
                LET key == <<"H0", "H1", "H2">>[k] IN
                (\/ key \notin DOMAIN vz_diagrams
                 \/ vz_diagrams[key] = <<>>
                 \/ ~HasFiniteLifespan(vz_diagrams[key]))
                => \A i \in 1..12 : BlockOf(vz_result.value, k)[i] = <<0, 1>>

\* A returned vector for a diagram set with H1 missing, H0 made of an infinite
\* feature only, H2 with finite pairs and a key the function does not read.
C13_Witness ==
    /\ vz_pc = "done"
    /\ DOMAIN vz_diagrams = {"H0", "H2", "H3"}
    /\ vz_diagrams["H0"] = << <<0, Infinity>> >>
    /\ Len(vz_diagrams["H2"]) = 2
    /\ BlockOf(vz_result.value, 3)[1] = <<2, 1>>

-----------------------------------------------------------------------------
(* Properties of takens_embedding (specification SpecTakens).              *)

\* C14. takens_embedding raises the too-short error, with no point cloud,
\* iff n - (d-1)*tau <= 0; otherwise it returns n - (d-1)*tau points, and
\* coordinate i of point t is series[t + i*tau] (0-based).
C14_TakensEmbedding ==
    tk_pc = "done" =>
        LET series == tk_args.time_series
            tau == tk_args.delay
            d == tk_args.dimension
            count == Len(series) - (d - 1) * tau
        IN /\ tk_result.status = "raised" <=> count <= 0
           /\ tk_result.status = "raised" => "value" \notin DOMAIN tk_result
           /\ tk_result.status # "raised" =>
                 /\ tk_result.status = "returned"
                 /\ Len(tk_result.value) = count
                 /\ \A t \in 0..(count - 1) :
                       /\ Len(tk_result.value[t + 1]) = d
                       /\ \A i \in 0..(d - 1) :
                             tk_result.value[t + 1][i + 1] = series[t + i * tau + 1]

\* A returned embedding with two points of three coordinates, with a series
\* whose entries are not all equal.
C14_Witness ==
    /\ tk_pc = "done"
    /\ tk_result.status = "returned"
    /\ tk_args.dimension = 3
    /\ tk_args.delay = 1
    /\ tk_args.time_series = <<0, 1, 1, 0>>
    /\ tk_result.value = << <<0, 1, 1>>, <<1, 1, 0>> >>

-----------------------------------------------------------------------------
(* Properties of detect_periodicity_sw1pers (specification SpecPeriod).    *)

\* The number of entries of the returned list for the period p.
EntriesFor(p) ==
    Cardinality({k \in 1..Len(pd_result.value) : pd_result.value[k].period_days = p})

C16_WeeklyRankedFirst ==
    (pd_pc = "done" /\ pd_args = PeriodicScenario) =>
        pd_result.value[1].period_days = 7

-----------------------------------------------------------------------------
(* Properties of the persistence handlers (specification SpecRoute).       *)

\* C17 as stated: the persistence of a request is computed with the birth
\* threshold of the request, and with none when the request has none.
C17_RequestThresholdApplied ==
    \A k \in 1..Len(rt_calls) :
        IF "threshold" \in DOMAIN rq.body
        THEN rt_calls[k].threshold = rq.body.threshold
        ELSE "threshold" \notin DOMAIN rt_calls[k]

\* The amenity lists of the venues do not all have the same length.
InconsistentShapes(venues) ==
    \E i, j \in 1..Len(venues) : Len(venues[i].amenities) # Len(venues[j].amenities)

\* C19 as stated: with fewer than 2 records, or records of inconsistent
\* shapes, no distance matrix is produced and the request ends in an error,
\* on both entry points.
C19_InvalidVenuesRejected ==
    (rt_pc # "idle" /\ (Len(rq.body.venues) < 2 \/ InconsistentShapes(rq.body.venues))) =>
        /\ dist_matrix = NoMatrix
        /\ rt_pc = "done" => rt_response.status = "error"

-----------------------------------------------------------------------------
(* Properties of the sliding-window detectors (specification SpecWindows). *)

\* C18: a series of at most window_size values makes detect_regime_changes
\* and detect_anomalies_tada report an insufficient-length error: neither of
\* them returns normally (with an empty list or otherwise) on such a series.
C18_ShortSeriesRaises ==
    /\ (/\ rg_pc = "done"
        /\ Len(rg_args.time_series) <= rg_args.window_size)
           => rg_result.status = "raised"
    /\ (/\ ta_pc = "done"
        /\ Len(ta_args.booking_channels) >= 2
        /\ MinLength(ta_args.booking_channels) <= ta_args.window_size)
           => ta_result.status = "raised"

-----------------------------------------------------------------------------
(* Properties of the floor plan analysis (specification SpecLayout).       *)

\* C20: fewer than dimension + 2 points is a degenerate-input error:
\* analyze_floor_plan_topology on a layout that yields fewer than 4 points,
\* and compute_persistence on fewer than max_dim + 2 points, end with an
\* error and not with an analysis result.
C20_TooFewPointsRaises ==
    /\ (/\ ly_pc = "done"
        /\ Len(FurniturePoints(ly_args.furniture_positions)) < 4)
           => ly_result.status = "raised"
    /\ (/\ cp_pc = "done"
        /\ NumPoints(cp_args.distance_matrix) < cp_args.max_dim + 2)
           => cp_result.status = "raised"

-----------------------------------------------------------------------------
(* Properties of a dimension without finite features (specification        *)
(* SpecRips).                                                              *)

\* The fields of the statistics of a dimension with finite features.
StatFields ==
    {"count", "mean_lifespan", "std_lifespan", "median_lifespan", "max_lifespan",
     "iqr_lifespan", "entropy"}

\* C21: a dimension with no finite feature is not an error, and its
\* statistics have count 0 and every other statistic field, so that the
\* statistics of all dimensions have the same fields.
C21_EmptyDimensionZeroStats ==
    /\ cp_pc = "done" =>
          /\ cp_result.status = "returned"
          /\ \A d \in DOMAIN cp_result.value.stats :
                LET s == cp_result.value.stats[d]
                IN s.count = 0 => StatFields \subseteq DOMAIN s
    /\ ms_pc = "returned" =>
          \A d \in DOMAIN LastResult.stats :
              LET s == LastResult.stats[d]
              IN s.count = 0 => StatFields \subseteq DOMAIN s

-----------------------------------------------------------------------------
(* Properties of the Mapper functions (specifications SpecMapper and       *)
(* SpecMapperFair).                                                        *)

\* C22: no operation has an effect outside its return value: no step of an
\* operation writes to durable storage (the files stay as they are) or
\* changes an input argument.
C22_NoOutsideEffect ==
    [][/\ files' = files
       /\ <<bookings, cp_args, ms_args, vz_diagrams, tk_args, pd_args, rq, rg_args, ta_args,
            ly_args, mp_args>>'
             = <<bookings, cp_args, ms_args, vz_diagrams, tk_args, pd_args, rq, rg_args,
                 ta_args, ly_args, mp_args>>]_vars

\* Two nodes of a graph are joined by a link, stored under either of them.
Linked(g, a, b) ==
    \/ a \in DOMAIN g.links /\ b \in Range(g.links[a])
    \/ b \in DOMAIN g.links /\ a \in Range(g.links[b])

\* The nodes joined to a set of nodes by paths of links.
RECURSIVE LinkedTo(_, _)
LinkedTo(g, S) ==
    LET more == S \cup {b \in DOMAIN g.nodes : \E a \in S : Linked(g, a, b)}
    IN IF more = S THEN S ELSE LinkedTo(g, more)

\* The connected components of a graph, links taken as undirected edges.
ConnectedComponents(g) == {LinkedTo(g, {n}) : n \in DOMAIN g.nodes}

\* C27: _count_components terminates on every graph, and what it returns is
\* the number of connected components of the graph with its links taken as
\* undirected edges (0 for a graph without nodes, one per isolated node);
\* every node has been visited exactly once when it returns.
C27_CountComponents ==
    /\ [](mp_pc \in {"return", "done"} =>
             /\ components = Cardinality(ConnectedComponents(graph))
             /\ Len(expanded) = Len(graph.nodes)
             /\ Range(expanded) = DOMAIN graph.nodes)
    /\ [](mp_pc = "done" =>
             mp_result.value.stats.connected_components
                 = Cardinality(ConnectedComponents(graph)))
    /\ <>(mp_pc = "done")

\* A graph of three nodes with one link, stored under its source only, was
\* counted: two components, one of them an isolated node.
C27_Witness ==
    /\ mp_pc = "done"
    /\ Len(graph.nodes) = 3
    /\ DOMAIN graph.links = {1}
    /\ graph.links[1] = <<3>>
    /\ mp_result.value.stats.connected_components = 2
    /\ expanded[1] = 3

-----------------------------------------------------------------------------
(* Further properties of build_booking_simplicial_complex (specification   *)
(* Spec).                                                                  *)

\* C23: the flag curl_detected of the returned hodge analysis is true iff
\* the returned complex has at least one simplex of dimension 2, the empty
\* booking list included.
C23_CurlIffTriangle ==
    pc = "done" =>
        (result.hodge_analysis.curl_detected <=> Get(result.simplices, 2, {}) # {})

\* A complex with triangles was returned with the flag set.
C23_Witness ==
    /\ pc = "done"
    /\ Len(bookings) > 0
    /\ Get(result.simplices, 2, {}) # {}
    /\ Get(result.simplices, 3, {}) = {}
    /\ result.hodge_analysis.curl_detected


-----------------------------------------------------------------------------
(* Order independence of the multi-subsample merge (specification          *)
(* SpecMulti).                                                             *)

\* The orders in which n subsample results can be produced or merged.
MergeOrders(n) == {p \in [1..n -> 1..n] : \A i, j \in 1..n : i # j => p[i] # p[j]}

\* Lines 203-236 applied to the subsample results taken in a given order:
\* the statistics with a positive count are retained per dimension, then
\* aggregated.
MergedInOrder(results, p, args) ==
    LET taken == [i \in 1..Len(results) |-> results[p[i]]]
        retained(d) == LET having == SelectSeq(taken, LAMBDA r : r.stats[d].count > 0)
                       IN [i \in 1..Len(having) |-> having[i].stats[d]]
    IN MultiResult([d \in 0..args.max_dim |-> retained(d)], args)

-----------------------------------------------------------------------------
(* The dimensions of a compute_persistence_scaled result (specification    *)
(* SpecScale).                                                             *)

\* C25 as stated: the result has an entry for exactly the dimensions
\* 0..max_dim in "diagrams" and in "stats", whichever of the four size paths
\* was taken.
C25_ExactlyRequestedDims ==
    scale_pc = "done" =>
        /\ scale_result.diagrams = 0..req_max_dim
        /\ scale_result.stats = 0..req_max_dim


-----------------------------------------------------------------------------
(* Properties of the sliding-window detectors (specification SpecWindows). *)

\* C26. detect_regime_changes reports nothing when fewer than 3 windows were
\* analysed or no two consecutive norms differ; otherwise it reports exactly
\* the indices i whose difference |norm[i+1] - norm[i]| is strictly above
\* mean + 2*std of all differences (k*d - S > sqrt(4*(k*Q - S*S)), which for
\* an integer left side is k*d - S > floor of that root), each report with
\* severity above 1, norm_before = norm[i] and norm_after = norm[i+1], and
\* the reported positions strictly increase.
C26_ChangePointRule ==
    rg_pc = "done" =>
        LET diff == AbsDiff(norms)
            k == Len(diff)
            S == SumSeq(diff)
            Q == SumSeq([i \in 1..k |-> diff[i] * diff[i]])
            Above(i) == k * diff[i] - S > Isqrt(4 * (k * Q - S * S))
            reports == rg_result.value
        IN IF Len(norms) < 3 \/ S = 0
           THEN reports = <<>>
           ELSE /\ \A i \in 1..k :
                     Above(i) <=> \E j \in 1..Len(reports) :
                                     reports[j].position = positions[i]
                /\ \A j \in 1..Len(reports) :
                     \E i \in 1..k :
                        /\ Above(i)
                        /\ reports[j].position = positions[i]
                        /\ reports[j].norm_before = norms[i]
                        /\ reports[j].norm_after = norms[i + 1]
                        /\ reports[j].severity[1] > reports[j].severity[2]
                /\ \A j \in 1..(Len(reports) - 1) :
                     reports[j].position < reports[j + 1].position

\* A series that is flat and then oscillates was analysed: one change point
\* is reported, where the norm leaves 0, and the differences at the other
\* indices are not reported.
C26_Witness ==
    /\ rg_pc = "done"
    /\ Len(norms) >= 3
    /\ Len(rg_result.value) = 1
    /\ rg_result.value[1].norm_before = 0
    /\ rg_result.value[1].norm_after > 0
    /\ rg_result.value[1].position = positions[Len(norms) - 1]

\* A single large difference among three is within two standard deviations
\* of the mean, and nothing is reported.
C26_WitnessWithin ==
    /\ rg_pc = "done"
    /\ rg_args = RegimeBlip
    /\ Len(norms) = 4
    /\ norms[4] > 0
    /\ rg_result.value = <<>>


\* The starts 0, s, 2s, ... of the windows of size w that fit in a series of
\* length n, in ascending order.
FittingStarts(n, w, s) ==
    LET count == Cardinality({j \in 0..n : j * s + w <= n})
    IN [j \in 1..count |-> (j - 1) * s]

\* C28 as stated: each detector analyses exactly the windows that fit in the
\* series, each contributing one norm or feature vector and the position
\* start + w div 2.
C28_EveryFittingWindow ==
    /\ rg_pc = "done" =>
          LET starts == FittingStarts(Len(rg_args.time_series), rg_args.window_size,
                                      rg_args.step)
          IN /\ Len(norms) = Len(starts)
             /\ positions = [j \in 1..Len(starts) |->
                               starts[j] + rg_args.window_size \div 2]
    /\ (ta_pc = "done" /\ Len(ta_args.booking_channels) >= 2) =>
          LET starts == FittingStarts(MinLength(ta_args.booking_channels),
                                      ta_args.window_size, ta_args.step)
          IN /\ Len(topo_features) = Len(starts)
             /\ ta_positions = [j \in 1..Len(starts) |->
                                  starts[j] + ta_args.window_size \div 2]


-----------------------------------------------------------------------------
(* The Betti estimate against the exact mod-2 Betti numbers (specification *)
(* Spec).                                                                  *)

\* The simplex s without its i-th vertex.
Face(s, i) == [j \in 1..(Len(s) - 1) |-> IF j < i THEN s[j] ELSE s[j + 1]]

\* The boundary of s over the field of two elements: the faces that occur an
\* odd number of times.
Boundary(s) ==
    {f \in {Face(s, i) : i \in 1..Len(s)} :
        Cardinality({i \in 1..Len(s) : Face(s, i) = f}) % 2 = 1}

SymDiff(A, B) == (A \ B) \cup (B \ A)

\* The rank over the field of two elements of the matrix whose columns are
\* the sets in cols, by elimination: a nonzero column and a row in it are
\* picked, the row is cleared from the other columns.
RECURSIVE RankMod2(_)
RankMod2(cols) ==
    IF cols \ {{}} = {} THEN 0
    ELSE LET c == CHOOSE c \in cols : c # {}
             r == CHOOSE r \in c : TRUE
         IN 1 + RankMod2({IF r \in d THEN SymDiff(d, c) ELSE d : d \in cols \ {c}})

\* rank of the boundary operator from the k-simplices of the returned
\* complex to its (k-1)-simplices.
BoundaryRank(k) == RankMod2({Boundary(s) : s \in Simplices(k)})

\* The exact k-th Betti number of the returned complex over the field of two
\* elements.
ExactBetti(k) == NumSimplices(k) - BoundaryRank(k) - BoundaryRank(k + 1)

\* C29. For every k >= 1 the reported beta_k is at most the exact mod-2
\* Betti number n_k - rank(d_k) - rank(d_(k+1)) of the returned complex.
C29_EstimateIsLowerBound ==
    Returned =>
        \A k \in DOMAIN result.betti_numbers :
            k >= 1 => result.betti_numbers[k] <= ExactBetti(k)

\* A returned complex with more tetrahedra than triangles: the estimate of
\* beta_3 is positive and below the exact value.
C29_Witness ==
    /\ Returned
    /\ 3 \in DOMAIN result.betti_numbers
    /\ result.betti_numbers[3] > 0
    /\ result.betti_numbers[3] < ExactBetti(3)


-----------------------------------------------------------------------------
(* The complex as a function of the set of bookings (specification Spec).  *)

\* simplices_by_dim after the loop of lines 42-65 has taken the first n
\* bookings of bks.
RECURSIVE SimplicesAfter(_, _)
SimplicesAfter(bks, n) ==
    IF n = 0 THEN <<>> ELSE AddBookingTo(SimplicesAfter(bks, n - 1), bks[n])

\* The entities the loop collects from bks.
EntitiesOf(bks) == UNION {Range(AllEntities(bks[i])) : i \in DOMAIN bks}

\* The parent map after the loop of lines 194-196 has taken the edges in
\* some order.
RECURSIVE ParentAfter(_, _)
ParentAfter(p, edges) ==
    IF edges = {} THEN p
    ELSE LET edge == CHOOSE e \in edges : TRUE
         IN ParentAfter(IF Len(edge) = 2 THEN Union(p, edge[1], edge[2]) ELSE p,
                        edges \ {edge})

\* The dict build_booking_simplicial_complex returns for bks.
ComplexOf(bks) ==
    LET ents == EntitiesOf(bks)
        sbd == Deduplicated(SimplicesAfter(bks, Len(bks)), ents)
        p == ParentAfter([v \in ents |-> v], IF ents = {} THEN {} ELSE Get(sbd, 1, {}))
    IN ComplexResult(sbd, ents, p, bks)

\* The booking with its vendor_ids in every order.
VendorOrders(booking) ==
    IF "vendor_ids" \notin DOMAIN booking THEN {booking}
    ELSE {[booking EXCEPT !.vendor_ids = [i \in DOMAIN booking.vendor_ids |->
                                            booking.vendor_ids[p[i]]]]
          : p \in MergeOrders(Len(booking.vendor_ids))}

\* The booking lists that hold the bookings of bks, each at least once, in
\* any order, with the vendor_ids of each in any order, and at most one
\* booking more than bks.
Rearrangements(bks) ==
    LET variants == UNION {VendorOrders(bks[i]) : i \in DOMAIN bks}
    IN {other \in SeqsUpTo(variants, Len(bks) + 1) :
          \A i \in DOMAIN bks : \E j \in DOMAIN other : other[j] \in VendorOrders(bks[i])}

\* The pairs of a type and a raw id that the bookings mention.
MentionedPairs(bks) ==
    UNION {{<<"venue", bks[i].venue_id>>, <<"event", bks[i].event_id>>,
            <<"timeslot", Get(bks[i], "timeslot_id", Default)>>}
           \cup {<<"vendor", v>> : v \in Range(Get(bks[i], "vendor_ids", <<>>))}
           : i \in DOMAIN bks}

\* C30. The simplices of every dimension, the counts, num_entities and the
\* Betti numbers of the returned complex are those of every rearrangement
\* of the booking list (bookings reordered, repeated, vendor_ids reordered),
\* and there is one vertex per mentioned pair of a type and a raw id.
C30_DependsOnBookingSet ==
    Returned =>
        /\ \A other \in Rearrangements(bookings) :
              LET c == ComplexOf(other)
              IN /\ c.simplices = result.simplices
                 /\ c.counts = result.counts
                 /\ c.num_entities = result.num_entities
                 /\ c.betti_numbers = result.betti_numbers
        /\ result.num_entities = Cardinality(MentionedPairs(bookings))
        /\ Simplices(0) = {<<e>> : e \in MentionedPairs(bookings)}

\* A complex was returned for a booking with two different vendors, the
\* higher id first: its rearrangements swap the vendors, repeat the booking
\* and put either order first.
C30_Witness ==
    /\ Returned
    /\ Len(bookings) = 1
    /\ Get(bookings[1], "vendor_ids", <<>>) = <<2, 1>>
    /\ LET swapped == [bookings[1] EXCEPT !.vendor_ids = <<1, 2>>]
       IN {<<swapped>>, <<swapped, bookings[1]>>, <<bookings[1], swapped>>,
           <<bookings[1], bookings[1]>>} \subseteq Rearrangements(bookings)

\* A complex was returned for two different bookings, which the
\* rearrangements also hold in the other order.
C30_WitnessReordered ==
    /\ Returned
    /\ Len(bookings) = 2
    /\ bookings[1] # bookings[2]
    /\ <<bookings[2], bookings[1]>> \in Rearrangements(bookings)

====
